---- MODULE Spec2Model ----
(***************************************************************************)
(* Model of the cyberattack-visualization repository:                      *)
(*   - the pcap decoder (src/scripts/engine.js 403-621, src/scripts/utils.js)*)
(*   - the flag-based fluid particle engine (src/unnamed/part_001 1-769).   *)
(* part_001 imports parsePcapFile from ./pcap_parser, which exports no     *)
(* such function; the decoder composed with the engine here is the one of  *)
(* engine.js. The serverCapacity slider (index.js 44-47) calls             *)
(* engine.setFluidParameter, which no source file defines, so parameters   *)
(* never change.                                                           *)
(*                                                                         *)
(* A value a handler computes once and reads several times is handed on as *)
(* the argument of a local operator.                                       *)
(*                                                                         *)
(* Conventions.                                                            *)
(*   A byte buffer (ArrayBuffer / Uint8Array) is a sequence of 0..255;     *)
(*   the JavaScript index i is the TLA+ index i+1.                         *)
(*   JavaScript `undefined` is the record Undefined; an uncaught           *)
(*   RangeError / TypeError is the record RangeError / TypeError, which    *)
(*   every caller propagates as the code does (no try/catch anywhere).     *)
(***************************************************************************)
EXTENDS Integers, Sequences, FiniteSets, TLC

VARIABLES
    data,               \* decoder: the ArrayBuffer handed to parsePcapFile
    decoded,            \* decoder: what parsePcapFile returned or threw
    particles,          \* fluidParticleEngine.particles
    particleSources,    \* fluidParticleEngine.particleSources
    inputPcap,          \* fluidParticleEngine.inputPcap
    parameters,         \* fluidParticleEngine.parameters
    simulationTime,     \* fluidParticleEngine.simulationTime, in Tick units
    simulationStopped,  \* Engine.simulationStopped
    lastTime,           \* Engine.lastTime, in Tick units
    deltaTime,          \* Engine.deltaTime, in Tick units
    randomState,        \* hidden state of the ambient Math.random generator
    lastOp,             \* history: the handler that ran last
    thrown,             \* history: the exception that handler let escape
    stepsSinceRestart,  \* history: simulationStep calls since the last restart
    spawnLog,           \* history: the <<source, item>> of every spawnParticle call since the last restart
    cleared,            \* history: the particles the handler that ran last cleared in restart
    removed,            \* history: the particles removeParticle took out since the last restart, as they were then
    quadtree,           \* fluidParticleEngine.quadtree
    inserted,           \* quadtree on its own: the particles whose insert returned true
    queryRange,         \* quadtree on its own: the range of the last query
    found,              \* quadtree on its own: what the last query returned
    timeouts,           \* timer-based engine: the setTimeout callbacks not yet run
    stepRounds,         \* history: the particles the last simulationStep ran a round for, in order
    bits                \* utils.js on its own: a value, a bit count, and the fields taken from it

vars == <<data, decoded, particles, particleSources, inputPcap, parameters,
          simulationTime, simulationStopped, lastTime, deltaTime, randomState, lastOp, thrown,
          stepsSinceRestart, spawnLog, cleared, removed, quadtree, inserted,
          queryRange, found, timeouts, stepRounds, bits>>

decoderVars == <<data, decoded>>

engineVars == <<particles, particleSources, inputPcap, parameters,
                simulationTime, simulationStopped, lastTime, deltaTime, randomState, lastOp,
                thrown, stepsSinceRestart, spawnLog, cleared, removed, quadtree,
                inserted, queryRange, found, timeouts, stepRounds, bits>>

treeVars == <<inserted, queryRange, found>>

Min(a, b) == IF a < b THEN a ELSE b

\* a for loop: body(state, i) for i = lo, lo + 1, .., hi in turn, over a loop
\* state that is a record, a sequence or a function. The range is run in two
\* halves, the first brought to a value (by asking for its domain) before the
\* second starts, which keeps the evaluation shallow for long loops.
RECURSIVE ForEach(_, _, _, _)
ForEach(body(_, _), state, lo, hi) ==
    IF lo > hi THEN state
    ELSE IF lo = hi THEN body(state, lo)
    ELSE LET mid == (lo + hi) \div 2
             firstHalf == ForEach(body, state, lo, mid)
         IN  IF DOMAIN firstHalf = DOMAIN firstHalf
             THEN ForEach(body, firstHalf, mid + 1, hi)
             ELSE state

Max(a, b) == IF a > b THEN a ELSE b

-----------------------------------------------------------------------------
(* JavaScript values *)

Undefined == [type |-> "undefined"]

Null == [type |-> "null"]

RangeError == [type |-> "RangeError"]

TypeError == [type |-> "TypeError"]

IsError(v) == v = RangeError \/ v = TypeError

-----------------------------------------------------------------------------
(* src/scripts/utils.js *)

ETHERNET == 1

IEEE802_11 == 105

IPv4 == 2048

IPv6 == 34525

TCP == 6

RECURSIVE Pow2(_)
Pow2(n) == IF n = 0 THEN 1 ELSE 2 * Pow2(n - 1)

\* a & b on non-negative operands
RECURSIVE BitAnd(_, _)
BitAnd(a, b) ==
    IF a = 0 \/ b = 0 THEN 0
    ELSE (a % 2) * (b % 2) + 2 * BitAnd(a \div 2, b \div 2)

\* the loop "r <<= 1; r += 1" run n times from r
RECURSIVE MaskLoop(_, _)
MaskLoop(r, n) == IF n = 0 THEN r ELSE MaskLoop(2 * r + 1, n - 1)

getFirstNBits(value, n, bitLen) ==
    LET shiftBits == bitLen - n
        r == MaskLoop(0, n) * Pow2(shiftBits)
    IN  BitAnd(value, r) \div Pow2(shiftBits)

\* a mask one bit short
getLastNBitsOneShort(value, n) == BitAnd(value, MaskLoop(0, n) \div 2)

getLastNBits(value, n) == BitAnd(value, MaskLoop(0, n))

getFlagBit(value, idx) ==
    LET r == Pow2(idx) IN BitAnd(r, value) = r

-----------------------------------------------------------------------------
(* ArrayBuffer / Uint8Array / DataView primitives *)

\* buffer.slice(start, end): both ends clamped to the buffer, never throws
Slice(buf, start, end) == SubSeq(buf, start + 1, Min(end, Len(buf)))

\* DataView.getUintN(start) throws RangeError when it would read past the end
OutOfRange(buf, start, n) == start + n > Len(buf)

getUint16(buf, start, littleEndian) ==
    IF littleEndian
    THEN buf[start + 1] + 256 * buf[start + 2]
    ELSE 256 * buf[start + 1] + buf[start + 2]

getUint32(buf, start, littleEndian) ==
    IF littleEndian
    THEN buf[start + 1] + 256 * buf[start + 2] + 65536 * buf[start + 3]
         + 16777216 * buf[start + 4]
    ELSE 16777216 * buf[start + 1] + 65536 * buf[start + 2] + 256 * buf[start + 3]
         + buf[start + 4]

\* two's complement reading of the same four bytes (top byte below 128 here
\* or the value is taken negative)
getInt32(buf, start, littleEndian) ==
    LET top == IF littleEndian THEN buf[start + 4] ELSE buf[start + 1]
        low == IF littleEndian
               THEN buf[start + 1] + 256 * buf[start + 2] + 65536 * buf[start + 3]
               ELSE 65536 * buf[start + 2] + 256 * buf[start + 3] + buf[start + 4]
    IN  IF top < 128 THEN 16777216 * top + low
        ELSE 16777216 * (top - 256) + low

\* new DataView(data.slice(a, b).buffer).getUint16(): big-endian read of a
\* fresh copy, RangeError when the copy came out shorter than two bytes
SliceThrows(buf, a, b) == Len(Slice(buf, a, b)) < b - a

SliceUint16(buf, a) == getUint16(Slice(buf, a, a + 2), 0, FALSE)

SliceUint32(buf, a) == getUint32(Slice(buf, a, a + 4), 0, FALSE)

-----------------------------------------------------------------------------
(* src/scripts/engine.js: the decoder *)

parseProtocolDatagram(d, protocol) ==
    IF protocol = TCP
    THEN IF \/ SliceThrows(d, 0, 2) \/ SliceThrows(d, 2, 4)
            \/ SliceThrows(d, 4, 8) \/ SliceThrows(d, 8, 12)
            \/ SliceThrows(d, 14, 16) \/ SliceThrows(d, 16, 18)
            \/ SliceThrows(d, 18, 20)
         THEN RangeError
         ELSE LET offsetReserved == d[13]
                  dataOffset == getFirstNBits(offsetReserved, 4, 8) * 4
                  flags == d[14]
              IN  [type |-> "TCP PDU",
                   header |->
                     [sourcePort |-> SliceUint16(d, 0),
                      destPort |-> SliceUint16(d, 2),
                      sequenceNumber |-> SliceUint32(d, 4),
                      ACKNumber |-> SliceUint32(d, 8),
                      dataOffset |-> dataOffset,
                      reserved |-> getLastNBits(offsetReserved, 4),
                      flags |-> [CWR |-> getFlagBit(flags, 7),
                                 ECE |-> getFlagBit(flags, 6),
                                 URG |-> getFlagBit(flags, 5),
                                 ACK |-> getFlagBit(flags, 4),
                                 PSH |-> getFlagBit(flags, 3),
                                 RST |-> getFlagBit(flags, 2),
                                 SYN |-> getFlagBit(flags, 1),
                                 FIN |-> getFlagBit(flags, 0)],
                      window |-> SliceUint16(d, 14),
                      checksum |-> SliceUint16(d, 16),
                      urgentPointer |-> SliceUint16(d, 18),
                      options |-> Slice(d, 20, dataOffset)],
                   data |-> Slice(d, dataOffset, Len(d))]
    ELSE Undefined

parseIPv4Payload(d) ==
    IF \/ SliceThrows(d, 16, 18) \/ SliceThrows(d, 18, 20)
       \/ SliceThrows(d, 20, 22) \/ SliceThrows(d, 24, 26)
    THEN RangeError
    ELSE LET versionIHL == d[15]
             headerLen == getLastNBits(versionIHL, 4) * 4
             typeOfService == d[16]
             flagsFragmentOffset == SliceUint16(d, 20)
             flags == getFirstNBits(flagsFragmentOffset, 3, 16)
             protocol == d[24]
             lastIdx == 14 + headerLen
             packet(datagram) ==
                 IF IsError(datagram) THEN datagram
                 ELSE [type |-> "IP PDU",
                       header |->
                         [version |-> getFirstNBits(versionIHL, 4, 8),
                          headerLen |-> headerLen,
                          differentiatedServicesCodepoint |->
                              getFirstNBits(typeOfService, 6, 8),
                          ecn |-> getLastNBits(typeOfService, 2),
                          ipLen |-> SliceUint16(d, 16),
                          ipId |-> SliceUint16(d, 18),
                          flags |-> [dontFragment |-> (flags = 2 \/ flags = 3),
                                     moreFragments |-> (flags = 1 \/ flags = 3)],
                          fragmentOffset |-> getLastNBits(flagsFragmentOffset, 13),
                          ttl |-> d[23],
                          protocol |-> protocol,
                          headerChecksum |-> SliceUint16(d, 24),
                          sourceIP |-> Slice(d, 26, 30),
                          destIP |-> Slice(d, 30, 34),
                          options |-> Slice(d, 34, lastIdx)],
                       datagram |-> datagram]
         IN  packet(parseProtocolDatagram(Slice(d, lastIdx, Len(d)), protocol))

\* a frame parser that gives up on an EtherType it has no parser for
parseEthernetFrameStrict(d) ==
    IF SliceThrows(d, 12, 14) THEN RangeError
    ELSE IF SliceUint16(d, 12) # IPv4 THEN TypeError
    ELSE LET frame(payload) ==
                 IF IsError(payload) THEN payload
                 ELSE [type |-> "Ethernet Frame",
                       macDest |-> Slice(d, 0, 6),
                       macSrc |-> Slice(d, 6, 12),
                       etherType |-> SliceUint16(d, 12),
                       payload |-> payload]
         IN  frame(parseIPv4Payload(d))

parseEthernetFrame(d) ==
    IF SliceThrows(d, 12, 14) THEN RangeError
    ELSE LET etherType == SliceUint16(d, 12)
             frame(payload) ==
                 IF IsError(payload) THEN payload
                 ELSE [type |-> "Ethernet Frame",
                       macDest |-> Slice(d, 0, 6),
                       macSrc |-> Slice(d, 6, 12),
                       etherType |-> etherType,
                       payload |-> payload]
         IN  frame(IF etherType = IPv4 THEN parseIPv4Payload(d) ELSE Undefined)

parsePcapPacket(packet, headerType) ==
    IF headerType = ETHERNET THEN parseEthernetFrame(packet)
    ELSE Undefined

\* one round of the while loop of parsePcapFile, on the loop's state: the
\* cursor byteNum, the records pushed so far, and what a read of this round
\* threw. packetData and offset are the locals packetData and byteNum of the
\* round, kept for inspection. Once the loop is over a round changes nothing.
parseRecord(buf, isLittleEndian, network, loop) ==
    LET byteNum == loop.byteNum
    IN  IF IsError(loop.threw) \/ ~(byteNum < Len(buf)) THEN loop
        ELSE IF OutOfRange(buf, byteNum, 4) \/ OutOfRange(buf, byteNum + 4, 4)
                \/ OutOfRange(buf, byteNum + 8, 4) \/ OutOfRange(buf, byteNum + 12, 4)
        THEN [loop EXCEPT !.threw = RangeError]
        ELSE LET tsSec == getUint32(buf, byteNum, isLittleEndian)
                 tsUsec == getUint32(buf, byteNum + 4, isLittleEndian)
                 inclLen == getUint32(buf, byteNum + 8, isLittleEndian)
                 origLen == getUint32(buf, byteNum + 12, isLittleEndian)
                 packetData == Slice(buf, byteNum + 16, byteNum + 16 + inclLen)
                 push(packet) ==
                     IF IsError(packet) THEN [loop EXCEPT !.threw = packet]
                     ELSE [loop EXCEPT
                              !.byteNum = byteNum + 16 + inclLen,
                              !.packets = Append(@, [header |-> [tsSec |-> tsSec,
                                                                 tsUsec |-> tsUsec,
                                                                 inclLen |-> inclLen,
                                                                 origLen |-> origLen],
                                                     packet |-> packet,
                                                     packetData |-> packetData,
                                                     offset |-> byteNum])]
             IN  push(parsePcapPacket(packetData, network))

\* a loop that reads every record header big-endian
parseRecordsBigEndian(buf, isLittleEndian, network) ==
    ForEach(LAMBDA loop, round : parseRecord(buf, FALSE, network, loop),
            [byteNum |-> 24, packets |-> <<>>, threw |-> Undefined],
            1, (Len(buf) - 24) \div 16 + 1)

\* the while loop of parsePcapFile: a round moves the cursor by 16 bytes at
\* least, so the loop is over after (length - 24) / 16 + 1 rounds
parseRecords(buf, isLittleEndian, network) ==
    ForEach(LAMBDA loop, round : parseRecord(buf, isLittleEndian, network, loop),
            [byteNum |-> 24, packets |-> <<>>, threw |-> Undefined],
            1, (Len(buf) - 24) \div 16 + 1)

\* the magic number is kept as its four big-endian digits: 0xd4c3b2a1 does not
\* fit the checker's 32-bit integers
LittleEndianMagic == <<212, 195, 178, 161>>

BigEndianMagic == <<161, 178, 195, 212>>

parsePcapFile(buf) ==
    IF \/ OutOfRange(buf, 0, 4) \/ OutOfRange(buf, 4, 2) \/ OutOfRange(buf, 6, 2)
       \/ OutOfRange(buf, 8, 4) \/ OutOfRange(buf, 12, 4)
       \/ OutOfRange(buf, 16, 4) \/ OutOfRange(buf, 20, 4)
    THEN RangeError
    ELSE LET magicNumber == SubSeq(buf, 1, 4)
             isLittleEndian == magicNumber = LittleEndianMagic
             network == getUint32(buf, 20, isLittleEndian)
             file(loop) ==
                 IF IsError(loop.threw) THEN loop.threw
                 ELSE [type |-> "pcap",
                       globalHeader |->
                         [magicNumber |-> magicNumber,
                          versionMajor |-> getUint16(buf, 4, isLittleEndian),
                          versionMinor |-> getUint16(buf, 6, isLittleEndian),
                          thisZone |-> getInt32(buf, 8, isLittleEndian),
                          sigfigs |-> getUint32(buf, 12, isLittleEndian),
                          snapLen |-> getUint32(buf, 16, isLittleEndian),
                          network |-> network],
                       packets |-> loop.packets]
         IN  file(parseRecords(buf, isLittleEndian, network))

-----------------------------------------------------------------------------
(* Capture files fed to the decoder: well-formed files built field by field, *)
(* and every such file with up to MaxCut bytes missing from its end.         *)

MaxRecords == 2

MaxCut == 24

U16(v, littleEndian) ==
    IF littleEndian THEN <<v % 256, v \div 256>> ELSE <<v \div 256, v % 256>>

U32(v, littleEndian) ==
    LET b0 == v % 256
        b1 == (v \div 256) % 256
        b2 == (v \div 65536) % 256
        b3 == (v \div 16777216) % 256
    IN  IF littleEndian THEN <<b0, b1, b2, b3>> ELSE <<b3, b2, b1, b0>>

GlobalHeaderBytes(littleEndian, network) ==
    (IF littleEndian THEN LittleEndianMagic ELSE BigEndianMagic)
    \o U16(2, littleEndian) \o U16(4, littleEndian) \o U32(0, littleEndian)
    \o U32(0, littleEndian) \o U32(65535, littleEndian) \o U32(network, littleEndian)

EtherBytes(etherType, rest) ==
    <<1, 2, 3, 4, 5, 6, 7, 8, 9, 10, 11, 12>> \o U16(etherType, FALSE) \o rest

\* a 20-byte IPv4 header (version 4, IHL 5, don't-fragment) and its payload
IPv4Bytes(protocol, rest) ==
    <<69, 0>> \o U16(20 + Len(rest), FALSE) \o <<18, 52, 64, 0, 64, protocol, 0, 0>>
    \o <<10, 0, 0, 1, 10, 0, 0, 2>> \o rest

\* a 20-byte TCP header (data offset 5, SYN+ACK) and two bytes of data
TCPBytes ==
    <<31, 144, 0, 80, 0, 0, 1, 0, 0, 0, 2, 0, 80, 18, 16, 0, 0, 0, 0, 0, 170, 187>>

UDPBytes == <<0, 53, 0, 53, 0, 8, 0, 0>>

FrameKinds == {"tcp", "udp", "ipv6", "arp", "runt"}

FrameBytes(kind) ==
    CASE kind = "tcp" -> EtherBytes(IPv4, IPv4Bytes(TCP, TCPBytes))
      [] kind = "udp" -> EtherBytes(IPv4, IPv4Bytes(17, UDPBytes))
      [] kind = "ipv6" -> EtherBytes(IPv6, <<96, 0>>)
      [] kind = "arp" -> EtherBytes(2054, <<0, 1>>)
      [] kind = "runt" -> <<1, 2, 3>>

\* one record: the 16-byte record header and the frame it announces
RecordBytes(rec, littleEndian) ==
    LET frame == FrameBytes(rec.kind)
    IN  U32(rec.tsSec, littleEndian) \o U32(rec.tsUsec, littleEndian)
        \o U32(Len(frame), littleEndian) \o U32(Len(frame) + 4, littleEndian)
        \o frame

\* the records one after the other (halved, to keep the evaluation shallow)
RECURSIVE RecordsBytes(_, _)
RecordsBytes(recs, littleEndian) ==
    IF recs = <<>> THEN <<>>
    ELSE IF Len(recs) = 1 THEN RecordBytes(recs[1], littleEndian)
    ELSE LET half == Len(recs) \div 2
         IN  RecordsBytes(SubSeq(recs, 1, half), littleEndian)
             \o RecordsBytes(SubSeq(recs, half + 1, Len(recs)), littleEndian)

FileBytes(littleEndian, network, recs) ==
    GlobalHeaderBytes(littleEndian, network) \o RecordsBytes(recs, littleEndian)

SeqsUpTo(S, n) == UNION {[1..k -> S] : k \in 0..n}

\* the i-th record of a decoder input carries timestamps that tell records apart
StampedRecords(kinds) ==
    [i \in 1..Len(kinds) |-> [kind |-> kinds[i], tsSec |-> i, tsUsec |-> 10 * i + 3]]

Networks == {0, ETHERNET, IEEE802_11}

\* a first word that is neither magic number (the one of the nanosecond format)
OtherMagic == <<161, 178, 60, 77>>

\* a big-endian file under another first word
WithMagic(magic, f) == magic \o SubSeq(f, 5, Len(f))

DecoderFiles ==
    {FileBytes(le, net, StampedRecords(kinds)) :
        le \in BOOLEAN, net \in Networks, kinds \in SeqsUpTo(FrameKinds, MaxRecords)}
    \cup {WithMagic(OtherMagic, FileBytes(FALSE, ETHERNET, StampedRecords(kinds))) :
            kinds \in SeqsUpTo(FrameKinds, MaxRecords)}

DecoderInputs ==
    {SubSeq(f, 1, Len(f) - cut) : f \in DecoderFiles, cut \in 0..MaxCut}

-----------------------------------------------------------------------------
(* src/unnamed/part_001: the flag-based fluid particle engine.              *)
(*                                                                         *)
(* Numbers. JavaScript doubles are fixed-point integers here:              *)
(*   time      1 = 0.1 ms (a Tick); simulationTime, kept in milliseconds   *)
(*             by the code, is kept in Ticks, TicksPerMs to the ms;        *)
(*   position  1 = 1/FRUSTUM_SIZE of the frustum height (1e-4 world units);*)
(*   velocity  1 = 1e-6 world units per second,                            *)
(* and a product that leaves the grid is rounded down.                     *)

TicksPerMs == 10

FRUSTUM_SIZE == 10000

\* window.innerWidth / window.innerHeight of resizeCanvas
AspectRatio == 2

cameraLeft == -((FRUSTUM_SIZE * AspectRatio) \div 2)

cameraRight == (FRUSTUM_SIZE * AspectRatio) \div 2

cameraTop == FRUSTUM_SIZE \div 2

cameraBottom == -(FRUSTUM_SIZE \div 2)

MAX_PARTICLES == 100

\* 0.98 world units / s^2, in velocity units per Tick
GRAVITY == 98

PILLARS_HEIGHT == 2500

PARTICLE_RADIUS_MULTIPLIER == 100

\* IEEE +Infinity; every use spells out the comparison it takes part in
Infinity == 2147483647

InitialParameters ==
    [particleRadius |-> PARTICLE_RADIUS_MULTIPLIER,
     serverCapacity |-> FRUSTUM_SIZE \div 2,
     maxParticles |-> MAX_PARTICLES,
     serverSpeed |-> Infinity]

\* floor(v * t / 1000000) for 0 <= t < 100000 without leaving 32 bits
MulDivMillion(v, t) ==
    LET q == v \div 1000000
        r == v % 1000000
        a == r \div 1000
        b == r % 1000
        at == a * t
    IN  q * t + (at \div 1000) + (((at % 1000) * 1000 + b * t) \div 1000000)

\* velocity * deltaTime, in position units
Displacement(v, dt) == MulDivMillion(v, dt)

(* Math.random: the ambient generator, a hidden state that each call advances *)

RandomPeriod == 4

RandomNext(s) == (5 * s + 3) % RandomPeriod

\* Math.random() * 0.01, in position units
RandomJitter(s) == (s * PARTICLE_RADIUS_MULTIPLIER) \div RandomPeriod

particle(id, x, y) ==
    [id |-> id, x |-> x, y |-> y, Vx |-> 0, Vy |-> 0, startProcessingTime |-> Infinity]

\* a constructor that leaves the queue in capture order
sortByTimeKept(queue) == queue

\* Array.prototype.sort((a, b) => a.time - b.time): stable, ascending. An
\* item lands behind the items the comparator puts before it and behind the
\* earlier items it ties with.
sortByTime(queue) ==
    LET n == Len(queue)
        before == [i \in 1..n |->
                     Cardinality({j \in 1..n :
                                    \/ queue[j].time - queue[i].time < 0
                                    \/ /\ queue[j].time - queue[i].time = 0
                                       /\ j < i})]
    IN  [k \in 1..n |-> queue[CHOOSE i \in 1..n : before[i] = k - 1]]

particleSource(x, y, spawnQueue) ==
    [x |-> x,
     y |-> y,
     spawnQueue |->
        sortByTime([i \in 1..Len(spawnQueue) |->
                        [time |-> spawnQueue[i].milliseconds,
                         payload |-> spawnQueue[i].payload,
                         spawned |-> FALSE]])]

\* pcapFile.packets.filter(element => element.packet.payload !== undefined):
\* the callback reads a property of element.packet, a TypeError when the
\* packet itself is undefined
\* a filter that keeps only the records with a transport segment
filterPacketsTransport(packets) ==
    IF \E i \in 1..Len(packets) : packets[i].packet = Undefined
    THEN [threw |-> TypeError, packets |-> <<>>]
    ELSE [threw |-> Undefined,
          packets |-> SelectSeq(packets,
                                LAMBDA element :
                                    /\ element.packet.payload # Undefined
                                    /\ element.packet.payload.datagram # Undefined)]

filterPackets(packets) ==
    IF \E i \in 1..Len(packets) : packets[i].packet = Undefined
    THEN [threw |-> TypeError, packets |-> <<>>]
    ELSE [threw |-> Undefined,
          packets |-> SelectSeq(packets, LAMBDA element : element.packet.payload # Undefined)]

convertIntoMillisecondsFromStart(tsSec, tsUsec, baseMilliseconds) ==
    (tsSec * 1000 + tsUsec) - baseMilliseconds

\* loadPcap: what it threw, and the particleSources it installs when it runs
\* to its end. this.inputPcap is assigned before anything can throw.
loadPcap(pcapFile) ==
    LET filtered == filterPackets(pcapFile.packets)
        packets == filtered.packets
    IN  IF IsError(filtered.threw)
        THEN [threw |-> filtered.threw]
        ELSE IF packets = <<>>
        THEN [threw |-> TypeError]
        ELSE LET baseMilliseconds ==
                     packets[1].header.tsSec * 1000 + packets[1].header.tsUsec
                 spawnQueue ==
                     [i \in 1..Len(packets) |->
                        [milliseconds |->
                            convertIntoMillisecondsFromStart(
                                packets[i].header.tsSec, packets[i].header.tsUsec,
                                baseMilliseconds),
                         payload |-> packets[i].packet.payload]]
             IN  [threw |-> Undefined,
                  particleSources |-> <<particleSource(0, 0, spawnQueue)>>]

\* a restart that leaves the spawned flags as they are
restartSourcesKept(sources) == sources

\* restart: the spawned flags of every source are lowered
restartSources(sources) ==
    [s \in 1..Len(sources) |->
        [sources[s] EXCEPT !.spawnQueue =
            [k \in 1..Len(sources[s].spawnQueue) |->
                [sources[s].spawnQueue[k] EXCEPT !.spawned = FALSE]]]]

(* simulationStep works on a record st:                                     *)
(*   order    this.particles, as the ids of the particle objects           *)
(*   heap     the particle objects by id, the removed ones included (the   *)
(*            quadtree and the loop variable still refer to them)          *)
(*   sources  this.particleSources                                         *)
(*   random   the generator state                                          *)
(*   log      the history spawnLog                                         *)
(*   rounds   the history stepRounds                                       *)

\* spawnParticle(source): two Math.random() calls, one push
spawnParticle(st, source) ==
    LET id == Len(st.log) + 1
        posx == source.x + RandomJitter(st.random)
        r1 == RandomNext(st.random)
        posy == source.y + RandomJitter(r1)
        p == particle(id, posx, posy)
    IN  [st EXCEPT !.order = Append(@, id),
                   !.heap = [i \in DOMAIN @ \cup {id} |-> IF i = id THEN p ELSE @[i]],
                   !.random = RandomNext(r1)]

\* a round that spawns without raising the item's flag
spawnItemUnmarked(st, s, k, time) ==
    LET item == st.sources[s].spawnQueue[k]
    IN  IF ~item.spawned /\ item.time * TicksPerMs <= time
        THEN [spawnParticle(st, st.sources[s]) EXCEPT !.log = Append(@, <<s, k>>)]
        ELSE st

\* one round of the inner loop of the spawn phase: item k of source s
spawnItem(st, s, k, time) ==
    LET item == st.sources[s].spawnQueue[k]
    IN  IF ~item.spawned /\ item.time * TicksPerMs <= time
        THEN [spawnParticle(st, st.sources[s])
                EXCEPT !.sources[s].spawnQueue[k].spawned = TRUE,
                       !.log = Append(@, <<s, k>>)]
        ELSE st

\* the spawn phase of simulationStep: every source, every item of its queue
spawnSources(st, time) ==
    ForEach(LAMBDA st1, s :
                ForEach(LAMBDA st2, k : spawnItem(st2, s, k, time),
                        st1, 1, Len(st1.sources[s].spawnQueue)),
            st, 1, Len(st.sources))

checkWallCollisions(p, params) ==
    LET leftLimit == cameraLeft + (params.particleRadius \div 2)
        rightLimit == cameraRight - (params.particleRadius \div 2)
        topLimit == cameraTop - (params.particleRadius \div 2)
        bottomLimit == cameraBottom + (params.particleRadius \div 2)
        p1 == IF p.x >= rightLimit THEN [p EXCEPT !.x = rightLimit, !.Vx = 0] ELSE p
        p2 == IF p1.x <= leftLimit THEN [p1 EXCEPT !.x = leftLimit, !.Vx = 0] ELSE p1
        p3 == IF p2.y <= bottomLimit THEN [p2 EXCEPT !.y = bottomLimit, !.Vy = 0] ELSE p2
    IN  IF p3.y >= topLimit THEN [p3 EXCEPT !.y = topLimit, !.Vy = 0] ELSE p3

\* a test that takes every particle of a server of finite latency as done
shouldBeRemovedUntaken(time, p, params) == params.serverSpeed # Infinity

\* this.simulationTime - p.startProcessingTime >= this.parameters.serverSpeed
\* over the doubles: false whenever either side is infinite or NaN
shouldBeRemoved(time, p, params) ==
    /\ params.serverSpeed # Infinity
    /\ p.startProcessingTime # Infinity
    /\ time - p.startProcessingTime >= params.serverSpeed * TicksPerMs

\* Array.prototype.indexOf, counted from 1; 0 when absent
indexOf(order, id) ==
    IF \E i \in 1..Len(order) : order[i] = id
    THEN CHOOSE i \in 1..Len(order) :
            order[i] = id /\ \A j \in 1..(i - 1) : order[j] # id
    ELSE 0

\* removeParticle: indexOf and splice
removeParticle(st, id) ==
    LET idx == indexOf(st.order, id)
    IN  IF idx > 0
        THEN [st EXCEPT !.order = SubSeq(@, 1, idx - 1) \o SubSeq(@, idx + 1, Len(@))]
        ELSE st

-----------------------------------------------------------------------------
(* src/unnamed/part_001: the Quadtree.                                      *)
(* A boundary is kept in 1/QScale position units, so that halving a world  *)
(* rectangle stays exact for the depths reached; particles are referred to *)
(* by id and looked up in the heap for their current position.             *)

QScale == 65536

FloorDiv(a, n) == a \div n

CeilDiv(a, n) == -((-a) \div n)

Quadtree(boundary, capacity) ==
    [boundary |-> boundary, capacity |-> capacity, particles |-> <<>>,
     divided |-> FALSE, northeast |-> Null, southeast |-> Null,
     southwest |-> Null, northwest |-> Null]

subdivide(node) ==
    LET x == node.boundary.x
        y == node.boundary.y
        w == node.boundary.width \div 2
        h == node.boundary.height \div 2
        ne == [x |-> x + w, y |-> y + h, width |-> w, height |-> h]
        nw == [x |-> x, y |-> y + h, width |-> w, height |-> h]
        se == [x |-> x + w, y |-> y, width |-> w, height |-> h]
        sw == [x |-> x, y |-> y, width |-> w, height |-> h]
    IN  [node EXCEPT !.northeast = Quadtree(ne, node.capacity),
                     !.northwest = Quadtree(nw, node.capacity),
                     !.southeast = Quadtree(se, node.capacity),
                     !.southwest = Quadtree(sw, node.capacity),
                     !.divided = TRUE]

\* pos >= boundary.x && pos < boundary.x + boundary.width, both axes
contains(node, pos) ==
    LET b == node.boundary
    IN  /\ pos.x >= CeilDiv(b.x, QScale)
        /\ pos.x < CeilDiv(b.x + b.width, QScale)
        /\ pos.y >= CeilDiv(b.y, QScale)
        /\ pos.y < CeilDiv(b.y + b.height, QScale)

RECURSIVE insert(_, _, _)
insert(node, id, pos) ==
    IF ~contains(node, pos) THEN [ok |-> FALSE, node |-> node]
    ELSE IF Len(node.particles) <= node.capacity
    THEN [ok |-> TRUE, node |-> [node EXCEPT !.particles = Append(@, id)]]
    ELSE LET n == IF ~node.divided THEN subdivide(node) ELSE node
             ne == insert(n.northeast, id, pos)
             nw == insert(n.northwest, id, pos)
             se == insert(n.southeast, id, pos)
             sw == insert(n.southwest, id, pos)
         IN  IF ne.ok THEN [ok |-> TRUE, node |-> [n EXCEPT !.northeast = ne.node]]
             ELSE IF nw.ok THEN [ok |-> TRUE, node |-> [n EXCEPT !.northwest = nw.node]]
             ELSE IF se.ok THEN [ok |-> TRUE, node |-> [n EXCEPT !.southeast = se.node]]
             ELSE IF sw.ok THEN [ok |-> TRUE, node |-> [n EXCEPT !.southwest = sw.node]]
             ELSE [ok |-> FALSE, node |-> n]

\* a test that takes a node to intersect the ranges whose origin it holds
intersectOrigin(node, range) == contains(node, range)

intersect(node, range) ==
    LET b == node.boundary
    IN  ~(\/ range.x > FloorDiv(b.x + b.width, QScale)
          \/ range.x + range.width < CeilDiv(b.x, QScale)
          \/ range.y > FloorDiv(b.y + b.height, QScale)
          \/ range.y + range.height < CeilDiv(b.y, QScale))

particleInRange(pos, range) ==
    /\ pos.x >= range.x
    /\ pos.x < range.x + range.width
    /\ pos.y >= range.y
    /\ pos.y < range.y + range.height

\* query(range, found): what the call pushes onto found, in the order pushed:
\* the node's own particles in range, then the four children's
RECURSIVE query(_, _, _)
query(node, range, heap) ==
    IF ~intersect(node, range) THEN <<>>
    ELSE LET own == SelectSeq(node.particles,
                              LAMBDA id : particleInRange(heap[id], range))
         IN  IF node.divided
             THEN own \o query(node.northeast, range, heap)
                      \o query(node.northwest, range, heap)
                      \o query(node.southeast, range, heap)
                      \o query(node.southwest, range, heap)
             ELSE own

buildQuadTree(order, heap) ==
    LET boundary == [x |-> cameraLeft * QScale,
                     y |-> cameraBottom * QScale,
                     width |-> (cameraRight - cameraLeft) * QScale,
                     height |-> (cameraTop - cameraBottom) * QScale]
    IN  ForEach(LAMBDA tree, i : insert(tree, order[i], heap[order[i]]).node,
                Quadtree(boundary, 4), 1, Len(order))

radius(p) == PARTICLE_RADIUS_MULTIPLIER

getNearbyParticles(tree, p, heap) ==
    LET searchRadius == radius(p) * 4
        range == [x |-> p.x - searchRadius, y |-> p.y - searchRadius,
                  width |-> searchRadius * 2, height |-> searchRadius * 2]
    IN  query(tree, range, heap)

-----------------------------------------------------------------------------
(* src/unnamed/part_001: collisions.                                        *)

COLLISION_TOLERANCE == 1

NO_COLLISION == 0

COLLISION == 1

INTERPENETRATING == -1

\* floor(k * m / n) for n > 0 and |m| <= n, without leaving 32 bits
MulDiv(k, m, n) == (k \div n) * m + ((k % n) * m) \div n

\* particle.checkCollision, for two particles a query returned together (so
\* less than 8 radii apart on each axis). s = |d| - r is compared through
\* squares: |s| <= tol  iff  (r - tol)^2 <= d.d <= (r + tol)^2.
checkCollision(this, p) ==
    LET r == radius(this) + radius(p)
        dx == this.x - p.x
        dy == this.y - p.y
        dd == dx * dx + dy * dy
        lo == (r - COLLISION_TOLERANCE) * (r - COLLISION_TOLERANCE)
        hi == (r + COLLISION_TOLERANCE) * (r + COLLISION_TOLERANCE)
        touching == lo <= dd /\ dd <= hi
        \* vrn < 0 has the sign of relativeVelocity . d
        approaching == (this.Vx - p.Vx) * dx + (this.Vy - p.Vy) * dy < 0
    IN  IF touching /\ approaching THEN COLLISION
        ELSE IF dd < lo THEN INTERPENETRATING
        ELSE NO_COLLISION

\* the impulse of checkParticleCollision. collisionPoint has scaled `normal`
\* in place by r, and the scale cancels: impulseVelocity is
\* -(1 + 0.5) / 2 * (relativeVelocity . d) / (d . d) * d.
impulseVelocity(this, p) ==
    LET dx == this.x - p.x
        dy == this.y - p.y
        dd == dx * dx + dy * dy
        k == (this.Vx - p.Vx) * dx + (this.Vy - p.Vy) * dy
    IN  [x |-> -((3 * MulDiv(k, dx, dd)) \div 4),
         y |-> -((3 * MulDiv(k, dy, dd)) \div 4)]

isInMovement(p) == p.Vx # 0 \/ p.Vy # 0

\* a round that changes the current particle's velocity only
collideWithOneSided(heap, cur, p) ==
    IF ~isInMovement(heap[cur]) \/ cur = p THEN heap
    ELSE IF checkCollision(heap[cur], heap[p]) = COLLISION
    THEN [heap EXCEPT ![cur].Vx = @ + impulseVelocity(heap[cur], heap[p]).x,
                      ![cur].Vy = @ + impulseVelocity(heap[cur], heap[p]).y]
    ELSE heap

\* one round of the for-of loop of checkParticleCollision: nearby particle p
collideWith(heap, cur, p) ==
    IF ~isInMovement(heap[cur]) \/ cur = p THEN heap
    ELSE IF checkCollision(heap[cur], heap[p]) = COLLISION
    THEN LET imp == impulseVelocity(heap[cur], heap[p])
         IN  [heap EXCEPT ![cur].Vx = @ + imp.x, ![cur].Vy = @ + imp.y,
                          ![p].Vx = @ - imp.x, ![p].Vy = @ - imp.y]
    ELSE heap

checkParticleCollision(heap, tree, cur) ==
    LET nearby == getNearbyParticles(tree, heap[cur], heap)
    IN  ForEach(LAMBDA h, i : collideWith(h, cur, nearby[i]), heap, 1, Len(nearby))

\* collisionParticleSegment: NO_COLLISION iff discriminant < 0 or t1 < 0 or
\* t0 > 1, that is iff the centre is farther than the radius from the
\* segment. With a = dir.dir, b = -2 dir.oc, c = oc.oc - r^2 (a > 0):
\*   t1 < 0            iff  b > 0 and c > 0
\*   t0 > 1            iff  b + 2a < 0 and a + b + c > 0
\*   discriminant < 0  iff  cross(dir, oc)^2 > a r^2
\* A centre outside the segment's bounding box grown by r is farther than r.
collisionParticleSegment(p, startSeg, endSeg) ==
    LET r == radius(p)
        dirx == endSeg.x - startSeg.x
        diry == endSeg.y - startSeg.y
        ocx == p.x - startSeg.x
        ocy == p.y - startSeg.y
        far == \/ p.x < Min(startSeg.x, endSeg.x) - r
               \/ p.x > Max(startSeg.x, endSeg.x) + r
               \/ p.y < Min(startSeg.y, endSeg.y) - r
               \/ p.y > Max(startSeg.y, endSeg.y) + r
        a == dirx * dirx + diry * diry
        b == -2 * (dirx * ocx + diry * ocy)
        c == ocx * ocx + ocy * ocy - r * r
        cross == dirx * ocy - diry * ocx
        abscross == IF cross < 0 THEN -cross ELSE cross
        q == abscross \div r
        m == abscross % r
        \* cross^2 > a r^2, with cross = q r + m
        negative == \/ q * q > a
                    \/ CeilDiv(2 * q * m * r + m * m, r * r) > a - q * q
    IN  IF far THEN NO_COLLISION
        ELSE IF a = 0 THEN COLLISION
        ELSE IF negative \/ (b > 0 /\ c > 0) \/ (b + 2 * a < 0 /\ a + b + c > 0)
        THEN NO_COLLISION
        ELSE COLLISION

\* THREE.QuadraticBezierCurve.getPoint(k / 50)
QuadraticBezier(k, p0, p1, p2) ==
    ((50 - k) * (50 - k) * p0 + 2 * (50 - k) * k * p1 + k * k * p2) \div 2500

getPoint(curve, k) ==
    [x |-> QuadraticBezier(k, curve.v0.x, curve.v1.x, curve.v2.x),
     y |-> QuadraticBezier(k, curve.v0.y, curve.v1.y, curve.v2.y)]

\* refreshServerCapacity: the two curves of serverRepresentation
serverCurves(params) ==
    LET x0 == cameraLeft
        x1 == (cameraLeft + cameraRight - params.serverCapacity) \div 2
        y0 == (cameraTop + cameraBottom) \div 2
        y1 == cameraBottom + PILLARS_HEIGHT
        xx0 == cameraRight
        xx1 == (cameraLeft + cameraRight + params.serverCapacity) \div 2
    IN  [curve1 |-> [v0 |-> [x |-> x0, y |-> y0], v1 |-> [x |-> x0, y |-> y1],
                     v2 |-> [x |-> x1, y |-> y1]],
         curve2 |-> [v0 |-> [x |-> xx0, y |-> y0], v1 |-> [x |-> xx0, y |-> y1],
                     v2 |-> [x |-> xx1, y |-> y1]]]

\* the while loop of checkCollisionWithServer from subdivision k: some piece
\* of either curve is hit
RECURSIVE curveCollision(_, _, _)
curveCollision(p, curves, k) ==
    IF k >= 50 THEN FALSE
    ELSE \/ collisionParticleSegment(p, getPoint(curves.curve1, k),
                                     getPoint(curves.curve1, k + 1)) # NO_COLLISION
         \/ collisionParticleSegment(p, getPoint(curves.curve2, k),
                                     getPoint(curves.curve2, k + 1)) # NO_COLLISION
         \/ curveCollision(p, curves, k + 1)

\* v * -0.8
Damp(v) == -((4 * v) \div 5)

checkCollisionWithServer(p, params) ==
    LET x1 == (cameraLeft + cameraRight - params.serverCapacity) \div 2
        y1 == cameraBottom + PILLARS_HEIGHT
        xx1 == (cameraLeft + cameraRight + params.serverCapacity) \div 2
        bottom == cameraBottom
        coll1 == collisionParticleSegment(p, [x |-> x1, y |-> y1], [x |-> x1, y |-> bottom])
        coll2 == collisionParticleSegment(p, [x |-> xx1, y |-> y1], [x |-> xx1, y |-> bottom])
        \* the curves, met by the particle pa the pillars have left
        onCurves(pa, curves) ==
            \* no piece of a curve lies outside the hull of its control points
            IF /\ pa.y >= y1 - radius(pa)
               /\ pa.y <= Max(curves.curve1.v0.y, y1) + radius(pa)
               /\ (pa.x <= Max(x1, cameraLeft) + radius(pa)
                   \/ pa.x >= Min(xx1, cameraRight) - radius(pa))
               /\ curveCollision(pa, curves, 0)
            THEN [pa EXCEPT !.Vx = Damp(@), !.Vy = Damp(@)]
            ELSE pa
    IN  onCurves(IF coll1 # NO_COLLISION \/ coll2 # NO_COLLISION
                 THEN [p EXCEPT !.Vx = Damp(@)] ELSE p,
                 serverCurves(params))

-----------------------------------------------------------------------------
(* src/unnamed/part_001: simulationStep and restart.                        *)

\* round i of the per-particle for-of loop of simulationStep. The iterator
\* reads this.particles afresh on every round, so a splice made by
\* removeParticle shifts the particles behind it under the running index, and
\* the loop is over once the index has passed the end.
particleRound(st, tree, i, time, dt, params) ==
    IF i > Len(st.order) THEN st
    ELSE LET id == st.order[i]
             \* the removal of a particle the server is done with
             served(h, p) ==
                 IF shouldBeRemoved(time, p, params)
                 THEN removeParticle([st EXCEPT !.heap = [h EXCEPT ![id] = p],
                                                !.rounds = Append(@, id)], id)
                 ELSE [st EXCEPT !.heap = [h EXCEPT ![id] = p],
                                 !.rounds = Append(@, id)]
             \* the start of the server's processing
             processed(h, p) ==
                 served(h, IF /\ p.startProcessingTime = Infinity
                              /\ p.y <= cameraBottom + PILLARS_HEIGHT
                           THEN [p EXCEPT !.startProcessingTime = time]
                           ELSE p)
             \* APPLY DISPLACEMENT
             displaced(h, p) ==
                 processed(h, [p EXCEPT !.x = @ + Displacement(p.Vx, dt),
                                        !.y = @ + Displacement(p.Vy, dt)])
             \* APPLY FORCES: gravity, then the collisions on the heap h
             collided(h) ==
                 displaced(h, checkCollisionWithServer(
                                  checkWallCollisions(h[id], params), params))
         IN  collided(checkParticleCollision(
                          [st.heap EXCEPT ![id].Vy = @ - GRAVITY * dt], tree, id))

\* simulationStep(deltaTime) from the engine state given; the state it leaves
simulationStep(ps, sources, time0, random, log, dt, params) ==
    LET time == time0 + dt
        st0 == [order |-> [i \in 1..Len(ps) |-> ps[i].id],
                heap |-> [id \in {ps[i].id : i \in 1..Len(ps)} |->
                            ps[CHOOSE i \in 1..Len(ps) : ps[i].id = id]],
                sources |-> sources,
                random |-> random,
                log |-> log,
                rounds |-> <<>>]
        \* the state the step leaves, from the loop's state
        left(st, tree) ==
            [particles |-> [i \in 1..Len(st.order) |-> st.heap[st.order[i]]],
             particleSources |-> st.sources,
             simulationTime |-> time,
             random |-> st.random,
             log |-> st.log,
             quadtree |-> tree,
             rounds |-> st.rounds,
             removed |-> {st.heap[id] : id \in DOMAIN st.heap
                                             \ {st.order[i] : i \in 1..Len(st.order)}}]
        \* the per-particle loop over the quadtree built before it
        rounds(st1, tree) ==
            left(ForEach(LAMBDA st, i : particleRound(st, tree, i, time, dt, params),
                         st1, 1, Len(st1.order)),
                 tree)
        spawned(st1) == rounds(st1, buildQuadTree(st1.order, st1.heap))
    IN  spawned(spawnSources(st0, time))

-----------------------------------------------------------------------------
(* Capture files offered to the running page.                               *)

MaxSimRecords == 2

SimRecords ==
    {[kind |-> "tcp", tsSec |-> 0, tsUsec |-> 400],
     [kind |-> "udp", tsSec |-> 0, tsUsec |-> 100],
     [kind |-> "arp", tsSec |-> 0, tsUsec |-> 50]}

\* three Ethernet/IPv4/TCP records 0, 1500 and 4000 microseconds after the first
ExampleFile ==
    FileBytes(TRUE, ETHERNET,
              <<[kind |-> "tcp", tsSec |-> 5, tsUsec |-> 200],
                [kind |-> "tcp", tsSec |-> 5, tsUsec |-> 1700],
                [kind |-> "tcp", tsSec |-> 5, tsUsec |-> 4200]>>)

\* one record more than parameters.maxParticles: a first record, and a burst
\* that loadPcap schedules 600 ms after it
CrowdFile ==
    FileBytes(TRUE, ETHERNET,
              [i \in 1..(MAX_PARTICLES + 1) |->
                 [kind |-> "tcp", tsSec |-> 0, tsUsec |-> IF i = 1 THEN 100 ELSE 700]])

\* a capture of another link type, and a capture cut inside its last record
WirelessFile ==
    FileBytes(TRUE, IEEE802_11, <<[kind |-> "tcp", tsSec |-> 0, tsUsec |-> 100]>>)

CutFile ==
    LET f == FileBytes(TRUE, ETHERNET, <<[kind |-> "tcp", tsSec |-> 0, tsUsec |-> 100]>>)
    IN  SubSeq(f, 1, Len(f) - 50)

SimFiles ==
    {FileBytes(TRUE, ETHERNET, recs) : recs \in SeqsUpTo(SimRecords, MaxSimRecords)}
    \cup {ExampleFile, WirelessFile, CutFile}

\* a file with what parsePcapFile makes of it, and loadPcap of that
Upload(f) ==
    LET read(pcapFile) ==
            [file |-> f,
             pcapFile |-> pcapFile,
             loaded |-> IF IsError(pcapFile) THEN Undefined ELSE loadPcap(pcapFile)]
    IN  read(parsePcapFile(f))

PcapUploads == {Upload(f) : f \in SimFiles}

CrowdUpload == Upload(CrowdFile)

\* requestAnimationFrame hands out increasing timestamps; the gaps tried
FrameDeltas == {2000, 6000}

MaxLastTime == 6000

\* steps taken between two restarts
MaxSteps == 2

-----------------------------------------------------------------------------
(* The page: Engine (part_001 126-279) and its handlers (index.js).         *)

Init ==
    /\ data = <<>>
    /\ decoded = Undefined
    /\ particles = <<>>
    /\ particleSources = <<>>
    /\ inputPcap = Null
    /\ parameters = InitialParameters
    /\ simulationTime = 0
    /\ simulationStopped = FALSE
    /\ lastTime = 0
    /\ deltaTime = 1
    /\ randomState \in 0..(RandomPeriod - 1)
    /\ lastOp = "init"
    /\ thrown = Undefined
    /\ stepsSinceRestart = 0
    /\ spawnLog = <<>>
    /\ cleared = 0
    /\ removed = {}
    /\ quadtree = Null
    /\ inserted = {}
    /\ queryRange = Null
    /\ found = <<>>
    /\ stepRounds = <<>>
    /\ bits = Null
    /\ timeouts = <<>>

\* fluidParticleEngine.restart()
Restart(sources) ==
    /\ particles' = <<>>
    /\ simulationTime' = 0
    /\ particleSources' = restartSources(sources)
    /\ stepsSinceRestart' = 0
    /\ spawnLog' = <<>>
    /\ cleared' = Len(particles)
    /\ removed' = {}
    /\ stepRounds' = <<>>

\* fluidParticleEngine.simulationStep(dt)
Step(dt) ==
    \E after \in {simulationStep(particles, particleSources, simulationTime,
                                 randomState, spawnLog, dt, parameters)} :
        /\ particles' = after.particles
        /\ particleSources' = after.particleSources
        /\ simulationTime' = after.simulationTime
        /\ randomState' = after.random
        /\ spawnLog' = after.log
        /\ stepsSinceRestart' = stepsSinceRestart + 1
        /\ cleared' = 0
        /\ removed' = removed \cup after.removed
        /\ quadtree' = after.quadtree
        /\ stepRounds' = after.rounds

\* reader.onload of setPcapFile: parsePcapFile, loadPcap, restart; what one
\* of them throws ends the handler there
OnLoad(upload) ==
    LET pcapFile == upload.pcapFile
        loaded == upload.loaded
    IN  /\ lastOp' = "setPcapFile"
        /\ IF IsError(pcapFile)
           THEN /\ thrown' = pcapFile
                /\ cleared' = 0
                /\ UNCHANGED <<particles, particleSources, inputPcap, simulationTime,
                               stepsSinceRestart, spawnLog, removed, stepRounds>>
           ELSE IF IsError(loaded.threw)
           THEN /\ thrown' = loaded.threw
                /\ inputPcap' = pcapFile
                /\ cleared' = 0
                /\ UNCHANGED <<particles, particleSources, simulationTime,
                               stepsSinceRestart, spawnLog, removed, stepRounds>>
           ELSE /\ thrown' = Undefined
                /\ inputPcap' = pcapFile
                /\ Restart(loaded.particleSources)
        /\ UNCHANGED <<data, decoded, bits, parameters, simulationStopped, lastTime,
                       deltaTime, randomState, quadtree, treeVars, timeouts>>

SetPcapFile == \E upload \in PcapUploads : OnLoad(upload)

\* Engine.simulation(currentTime), the animation-frame callback
Simulation ==
    \E delta \in FrameDeltas :
        /\ lastTime + delta <= MaxLastTime
        /\ simulationStopped \/ stepsSinceRestart < MaxSteps
        /\ deltaTime' = delta
        /\ lastTime' = lastTime + delta
        /\ thrown' = Undefined
        /\ IF simulationStopped
           THEN /\ lastOp' = "simulation"
                /\ cleared' = 0
                /\ UNCHANGED <<particles, particleSources, simulationTime,
                               randomState, spawnLog, stepsSinceRestart, removed,
                               quadtree, stepRounds>>
           ELSE /\ lastOp' = "simulationStep"
                /\ Step(delta)
        /\ UNCHANGED <<data, decoded, bits, inputPcap, parameters, simulationStopped,
                       treeVars, timeouts>>

\* the click handler of nextFrameBtn: engine.simulationStep(); engine.render()
NextFrame ==
    /\ stepsSinceRestart < MaxSteps
    /\ lastOp' = "simulationStep"
    /\ thrown' = Undefined
    /\ Step(deltaTime)
    /\ UNCHANGED <<data, decoded, bits, inputPcap, parameters, simulationStopped,
                   lastTime, deltaTime, treeVars, timeouts>>

\* the click handler of resetSimulationBtn: engine.restart(); engine.render()
ResetSimulation ==
    /\ lastOp' = "restart"
    /\ thrown' = Undefined
    /\ Restart(particleSources)
    /\ UNCHANGED <<data, decoded, bits, inputPcap, parameters, simulationStopped,
                   lastTime, deltaTime, randomState, quadtree, treeVars, timeouts>>

\* the click handler of toggleSimulationBtn: engine.toggleSimulation()
ToggleSimulation ==
    /\ simulationStopped' = ~simulationStopped
    /\ lastOp' = "toggleSimulation"
    /\ thrown' = Undefined
    /\ cleared' = 0
    /\ UNCHANGED <<data, decoded, bits, stepRounds, particles, particleSources, inputPcap, parameters,
                   simulationTime, lastTime, deltaTime, randomState,
                   stepsSinceRestart, spawnLog, removed, quadtree, treeVars, timeouts>>

Next ==
    \/ SetPcapFile
    \/ Simulation
    \/ NextFrame
    \/ ResetSimulation
    \/ ToggleSimulation

Spec == Init /\ [][Next]_vars

(* The page fed the crowded capture. *)

SetCrowdFile == OnLoad(CrowdUpload)

InitCrowd == Init /\ randomState = 0

NextCrowd ==
    \/ SetCrowdFile
    \/ Simulation
    \/ NextFrame
    \/ ResetSimulation
    \/ ToggleSimulation

SpecCrowd == InitCrowd /\ [][NextCrowd]_vars

(* The page with a server of finite latency. parameters.serverSpeed is a    *)
(* field of the engine's parameters object (part_001 387), Infinity as the  *)
(* object is written and assignable like the other parameters; here it has *)
(* a finite value, in milliseconds, from before the first frame.            *)

ServerSpeeds == {0, 600}

\* two Ethernet/IPv4/TCP records with the same timestamp
PairFile ==
    FileBytes(TRUE, ETHERNET,
              <<[kind |-> "tcp", tsSec |-> 0, tsUsec |-> 100],
                [kind |-> "tcp", tsSec |-> 0, tsUsec |-> 100]>>)

ServerUploads == {Upload(PairFile), Upload(ExampleFile)}

SetServerFile == \E upload \in ServerUploads : OnLoad(upload)

InitServer ==
    /\ data = <<>>
    /\ decoded = Undefined
    /\ particles = <<>>
    /\ particleSources = <<>>
    /\ inputPcap = Null
    /\ \E speed \in ServerSpeeds :
          parameters = [InitialParameters EXCEPT !.serverSpeed = speed]
    /\ simulationTime = 0
    /\ simulationStopped = FALSE
    /\ lastTime = 0
    /\ deltaTime = 1
    /\ randomState \in 0..(RandomPeriod - 1)
    /\ lastOp = "init"
    /\ thrown = Undefined
    /\ stepsSinceRestart = 0
    /\ spawnLog = <<>>
    /\ cleared = 0
    /\ removed = {}
    /\ quadtree = Null
    /\ inserted = {}
    /\ queryRange = Null
    /\ found = <<>>
    /\ stepRounds = <<>>
    /\ bits = Null
    /\ timeouts = <<>>

NextServer ==
    \/ SetServerFile
    \/ Simulation
    \/ NextFrame
    \/ ResetSimulation
    \/ ToggleSimulation

SpecServer == InitServer /\ [][NextServer]_vars

(* The page left running. Engine.simulation ends by asking for the next     *)
(* animation frame (part_001 239, 246), so a frame that can come does come;   *)
(* the server's latency is the one written in the parameters object         *)
(* (part_001 387) or a finite one.                                          *)

LiveSpeeds == ServerSpeeds \cup {Infinity}

InitLive ==
    /\ data = <<>>
    /\ decoded = Undefined
    /\ particles = <<>>
    /\ particleSources = <<>>
    /\ inputPcap = Null
    /\ \E speed \in LiveSpeeds :
          parameters = [InitialParameters EXCEPT !.serverSpeed = speed]
    /\ simulationTime = 0
    /\ simulationStopped = FALSE
    /\ lastTime = 0
    /\ deltaTime = 1
    /\ randomState \in 0..(RandomPeriod - 1)
    /\ lastOp = "init"
    /\ thrown = Undefined
    /\ stepsSinceRestart = 0
    /\ spawnLog = <<>>
    /\ cleared = 0
    /\ removed = {}
    /\ quadtree = Null
    /\ inserted = {}
    /\ queryRange = Null
    /\ found = <<>>
    /\ stepRounds = <<>>
    /\ bits = Null
    /\ timeouts = <<>>

NextLive ==
    \/ SetServerFile
    \/ Simulation
    \/ NextFrame
    \/ ResetSimulation

\* a call of simulationStep, from the animation frame or from the button, by
\* what every such call writes: of the steps of NextLive these are the ones
\* Simulation and NextFrame take, and NextFrame can be taken exactly when
\* stepsSinceRestart < MaxSteps
StepInvoked ==
    /\ stepsSinceRestart < MaxSteps
    /\ lastOp' = "simulationStep"
    /\ stepsSinceRestart' = stepsSinceRestart + 1

\* the variables StepInvoked is stated over
stepVars == <<lastOp, stepsSinceRestart>>

SpecLive == InitLive /\ [][NextLive]_vars /\ WF_stepVars(StepInvoked)

-----------------------------------------------------------------------------
(* The Quadtree on its own: the tree buildQuadTree makes over the world     *)
(* rectangle, particles inserted one by one, and queries.                   *)

MaxInserts == 7

\* the centre of the world, a point of its south-west quadrant, and a point
\* of its right edge
TreePositions ==
    {[x |-> 0, y |-> 0], [x |-> -100, y |-> -100], [x |-> cameraRight, y |-> 0]}

FullWorldRect ==
    [x |-> cameraLeft, y |-> cameraBottom,
     width |-> cameraRight - cameraLeft, height |-> cameraTop - cameraBottom]

TreeRanges ==
    {FullWorldRect,
     [x |-> -200, y |-> -200, width |-> 150, height |-> 150],
     [x |-> 0, y |-> 0, width |-> cameraRight, height |-> cameraTop]}

InitTree ==
    /\ data = <<>>
    /\ decoded = Undefined
    /\ particles = <<>>
    /\ particleSources = <<>>
    /\ inputPcap = Null
    /\ parameters = InitialParameters
    /\ simulationTime = 0
    /\ simulationStopped = FALSE
    /\ lastTime = 0
    /\ deltaTime = 1
    /\ randomState = 0
    /\ lastOp = "init"
    /\ thrown = Undefined
    /\ stepsSinceRestart = 0
    /\ spawnLog = <<>>
    /\ cleared = 0
    /\ removed = {}
    /\ quadtree = buildQuadTree(<<>>, <<>>)
    /\ inserted = {}
    /\ queryRange = Null
    /\ found = <<>>
    /\ stepRounds = <<>>
    /\ bits = Null
    /\ timeouts = <<>>

\* this.quadtree.insert(p) for a new particle at pos
Insert(pos) ==
    /\ Len(particles) < MaxInserts
    /\ \E p \in {particle(Len(particles) + 1, pos.x, pos.y)} :
          \E res \in {insert(quadtree, p.id, p)} :
             /\ particles' = Append(particles, p)
             /\ quadtree' = res.node
             /\ inserted' = IF res.ok THEN inserted \cup {p.id} ELSE inserted
    /\ queryRange' = Null
    /\ found' = <<>>
    /\ lastOp' = "insert"
    /\ UNCHANGED <<data, decoded, bits, stepRounds, particleSources, inputPcap, parameters,
                   simulationTime, simulationStopped, lastTime, deltaTime,
                   randomState, thrown, stepsSinceRestart, spawnLog, cleared, removed,
                   timeouts>>

\* this.quadtree.query(range)
Query(range) ==
    /\ queryRange # range
    /\ queryRange' = range
    /\ found' = query(quadtree, range, particles)
    /\ lastOp' = "query"
    /\ UNCHANGED <<data, decoded, bits, stepRounds, particles, particleSources, inputPcap, parameters,
                   simulationTime, simulationStopped, lastTime, deltaTime,
                   randomState, thrown, stepsSinceRestart, spawnLog, cleared, removed,
                   quadtree, inserted, timeouts>>

InsertParticle == \E pos \in TreePositions : Insert(pos)

QueryRange == \E range \in TreeRanges : Query(range)

NextTree ==
    \/ InsertParticle
    \/ QueryRange

SpecTree == InitTree /\ [][NextTree]_vars

-----------------------------------------------------------------------------
(* checkParticleCollision on its own: two particles of a tree just built,   *)
(* the first at the origin, with velocities along x.                        *)

\* where the second particle is: touching (1 or 0.995 diameters away, level
\* or off the level), overlapping by the tolerance or by a radius, apart
CollidePositions ==
    {[x |-> 200, y |-> 0], [x |-> 199, y |-> 20], [x |-> 199, y |-> 0],
     [x |-> 100, y |-> 0], [x |-> 400, y |-> 0]}

CollideVelocities == {-300000, -100000, 0, 100000, 300000}

InitCollide ==
    /\ data = <<>>
    /\ decoded = Undefined
    /\ \E pos \in CollidePositions : \E v1, v2 \in CollideVelocities :
          particles = <<[particle(1, 0, 0) EXCEPT !.Vx = v1],
                        [particle(2, pos.x, pos.y) EXCEPT !.Vx = v2]>>
    /\ particleSources = <<>>
    /\ inputPcap = Null
    /\ parameters = InitialParameters
    /\ simulationTime = 0
    /\ simulationStopped = FALSE
    /\ lastTime = 0
    /\ deltaTime = 1
    /\ randomState = 0
    /\ lastOp = "init"
    /\ thrown = Undefined
    /\ stepsSinceRestart = 0
    /\ spawnLog = <<>>
    /\ cleared = 0
    /\ removed = {}
    /\ quadtree = buildQuadTree(<<1, 2>>, particles)
    /\ inserted = {}
    /\ queryRange = Null
    /\ found = <<>>
    /\ stepRounds = <<>>
    /\ bits = Null
    /\ timeouts = <<>>

\* this.checkParticleCollision(currentParticle)
Collide(cur) ==
    /\ particles' = checkParticleCollision(particles, quadtree, cur)
    /\ lastOp' = "checkParticleCollision"
    /\ UNCHANGED <<data, decoded, bits, stepRounds, particleSources, inputPcap, parameters,
                   simulationTime, simulationStopped, lastTime, deltaTime,
                   randomState, thrown, stepsSinceRestart, spawnLog, cleared, removed,
                   quadtree, treeVars, timeouts>>

NextCollide == \E cur \in 1..Len(particles) : Collide(cur)

SpecCollide == InitCollide /\ [][NextCollide]_vars

-----------------------------------------------------------------------------
(* simulationStep on one particle near a wall of the world.                 *)

\* on either side of the limits camera.right - 0.005 and camera.left + 0.005
WallXs == {0, cameraRight - 100, cameraRight - 50, cameraRight,
           cameraLeft + 50, cameraLeft + 100}

\* above the server's curves: at mid height and about camera.top - 0.005
WallYs == {0, cameraTop - 100, cameraTop - 50}

\* 0, a quarter of a world unit and one world unit per second
WallVelocities == {-1000000, -250000, 0, 250000, 1000000}

InitWall ==
    /\ data = <<>>
    /\ decoded = Undefined
    /\ \E x \in WallXs, y \in WallYs, vx \in WallVelocities, vy \in WallVelocities :
          particles = <<[particle(1, x, y) EXCEPT !.Vx = vx, !.Vy = vy]>>
    /\ particleSources = <<>>
    /\ inputPcap = Null
    /\ parameters = InitialParameters
    /\ simulationTime = 0
    /\ simulationStopped = FALSE
    /\ lastTime = 0
    /\ deltaTime \in FrameDeltas
    /\ randomState = 0
    /\ lastOp = "init"
    /\ thrown = Undefined
    /\ stepsSinceRestart = 0
    /\ spawnLog = <<>>
    /\ cleared = 0
    /\ removed = {}
    /\ quadtree = Null
    /\ inserted = {}
    /\ queryRange = Null
    /\ found = <<>>
    /\ stepRounds = <<>>
    /\ bits = Null
    /\ timeouts = <<>>

NextWall == NextFrame

SpecWall == InitWall /\ [][NextWall]_vars

-----------------------------------------------------------------------------
(* The timer-based engine (src/scripts/engine.js 16-389): restart hands one *)
(* callback per packet to setTimeout, and the callbacks spawn the           *)
(* particles. A particle is known by its place in this.particles, which     *)
(* only restart ever shortens.                                              *)

\* the spawn delay restart adds to every packet, in ms
DELAY == 1000

\* the pending callbacks the run of the model is cut at
MaxTimeouts == 3

TimerParameters ==
    [particleRadius |-> PARTICLE_RADIUS_MULTIPLIER,
     serverCapacity |-> FRUSTUM_SIZE \div 2,
     maxParticles |-> MAX_PARTICLES]

timerParticle(x, y) == [x |-> x, y |-> y, Vx |-> 0, Vy |-> 0]

timerParticleSource(x, y, spawnRate, packetsToSpawn) ==
    [x |-> x, y |-> y, spawnRate |-> spawnRate, packetsToSpawn |-> packetsToSpawn]

\* loadPcap up to its call of restart: what it threw, and the source list
\* addSource leaves
timerLoadPcap(sources, pcapFile) ==
    LET filtered == filterPackets(pcapFile.packets)
        packets == filtered.packets
    IN  IF IsError(filtered.threw)
        THEN [threw |-> filtered.threw]
        ELSE IF packets = <<>>
        THEN [threw |-> TypeError]
        ELSE LET baseMilliseconds ==
                     packets[1].header.tsSec * 1000 + packets[1].header.tsUsec
                 packetsToSpawn ==
                     [i \in 1..Len(packets) |->
                        [milliseconds |->
                            convertIntoMillisecondsFromStart(
                                packets[i].header.tsSec, packets[i].header.tsUsec,
                                baseMilliseconds),
                         payload |-> packets[i].packet.payload]]
             IN  [threw |-> Undefined,
                  particleSources |->
                      Append(sources,
                             timerParticleSource(0, PILLARS_HEIGHT, 0, packetsToSpawn))]

\* spawnParticle(source) on the engine state st = [particles, random]
timerSpawnParticle(st, source) ==
    LET posx == source.x + RandomJitter(st.random)
        r1 == RandomNext(st.random)
        posy == source.y + RandomJitter(r1)
    IN  [particles |-> Append(st.particles, timerParticle(posx, posy)),
         random |-> RandomNext(r1)]

\* setTimeout(callback, delay): the callback waits with the number of the
\* restart call that queued it. A delay below 0 counts as 0. Two fields are
\* history: the entry of the schedule the callback was made for (source and
\* packet, <<0, 0>> for the source init makes up) and whether restart has
\* been called since.
setTimeout(queue, source, delay, call, entry) ==
    Append(queue, [source |-> source, delay |-> Max(delay, 0), call |-> call,
                   entry |-> entry, stale |-> FALSE])

\* the callbacks a call of restart finds pending: it cancels none, and they
\* are of an earlier call from then on
pendingAtRestart(queue) == [i \in 1..Len(queue) |-> [queue[i] EXCEPT !.stale = TRUE]]

\* the number a restart call gives its callbacks: one the queue does not hold
nextCall(queue) ==
    IF queue = <<>> THEN 0
    ELSE 1 + (CHOOSE n \in {queue[i].call : i \in 1..Len(queue)} :
                 \A i \in 1..Len(queue) : queue[i].call <= n)

\* the queue without callback i. The numbers of the restart calls only tell
\* one call from another, so they are counted afresh over the callbacks left.
clearTimeout(queue, i) ==
    LET rest == [k \in 1..(Len(queue) - 1) |-> IF k < i THEN queue[k] ELSE queue[k + 1]]
        calls == {rest[k].call : k \in 1..Len(rest)}
    IN  [k \in 1..Len(rest) |->
            [rest[k] EXCEPT !.call = Cardinality({n \in calls : n < rest[k].call})]]

\* the callbacks restart queues for the sources: every packet of every source
scheduleSources(queue, sources, call) ==
    ForEach(LAMBDA q1, s :
                ForEach(LAMBDA q2, k :
                            setTimeout(q2, sources[s],
                                       sources[s].packetsToSpawn[k].milliseconds + DELAY,
                                       call, <<s, k>>),
                        q1, 1, Len(sources[s].packetsToSpawn)),
            queue, 1, Len(sources))

\* restart(): the particles, the generator and the callback queue it leaves
timerRestart(sources, random, queue) ==
    IF Len(sources) <= 0
    THEN LET spawned(st) ==
                 [particles |-> st.particles,
                  random |-> st.random,
                  timeouts |-> setTimeout(queue, timerParticleSource(0, 0, 1, <<>>),
                                          1000, nextCall(queue), <<0, 0>>)]
         IN  spawned(timerSpawnParticle([particles |-> <<>>, random |-> random],
                                        timerParticleSource(0, 0, 1, <<>>)))
    ELSE [particles |-> <<>>,
          random |-> random,
          timeouts |-> scheduleSources(queue, sources, nextCall(queue))]

\* floor(16 * sqrt(dd)) for 0 <= dd < 40000
Length16(dd) == CHOOSE r \in 0..3200 : r * r <= 256 * dd /\ 256 * dd < (r + 1) * (r + 1)

\* particle.checkCollision(p): dist.length() < r1 + r2, and dist.normalize(),
\* here already multiplied by the radius as checkParticleCollision does.
\* normalize leaves a vector of length 0 as it is. The squares are taken
\* only of distances below r1 + r2 on each axis, which stay within 32 bits.
timerCheckCollision(this, p) ==
    LET r == 2 * PARTICLE_RADIUS_MULTIPLIER
        dx == this.x - p.x
        dy == this.y - p.y
        dd == dx * dx + dy * dy
        scaled(len16) ==
            [collision |-> TRUE,
             x |-> IF len16 = 0 THEN 0
                   ELSE (16 * PARTICLE_RADIUS_MULTIPLIER * dx) \div len16,
             y |-> IF len16 = 0 THEN 0
                   ELSE (16 * PARTICLE_RADIUS_MULTIPLIER * dy) \div len16]
    IN  IF -r < dx /\ dx < r /\ -r < dy /\ dy < r /\ dd < r * r
        THEN scaled(Length16(dd))
        ELSE [collision |-> FALSE]

\* one round of the loop of checkParticleCollision: particle j against the
\* current particle cur
timerCollideWith(ps, cur, j) ==
    IF ~isInMovement(ps[cur]) \/ cur = j THEN ps
    ELSE LET moved(collResult) ==
                 IF collResult.collision
                 THEN [ps EXCEPT ![cur].x = @ + collResult.x,
                                 ![cur].y = @ + collResult.y,
                                 ![cur].Vx = 0,
                                 ![cur].Vy = 0]
                 ELSE ps
         IN  moved(timerCheckCollision(ps[cur], ps[j]))

timerCheckParticleCollision(ps, cur) ==
    ForEach(LAMBDA ps1, j : timerCollideWith(ps1, cur, j), ps, 1, Len(ps))

timerCheckWallCollisions(p, params) ==
    LET leftLimit == cameraLeft + (params.particleRadius \div 2)
        rightLimit == cameraRight - (params.particleRadius \div 2)
        topLimit == cameraTop - (params.particleRadius \div 2)
        bottomLimit == cameraBottom + (params.particleRadius \div 2)
        p1 == IF p.x >= rightLimit THEN [p EXCEPT !.x = rightLimit, !.Vx = 0] ELSE p
        p2 == IF p1.x <= leftLimit THEN [p1 EXCEPT !.x = leftLimit, !.Vx = 0] ELSE p1
        p3 == IF p2.y <= bottomLimit THEN [p2 EXCEPT !.y = bottomLimit, !.Vy = 0] ELSE p2
    IN  IF p3.y >= topLimit THEN [p3 EXCEPT !.y = topLimit, !.Vy = 0] ELSE p3

\* one round of the loop of simulationStep: particle i
timerParticleRound(ps, i, dt, params) ==
    LET walls(ps1) == [ps1 EXCEPT ![i] = timerCheckWallCollisions(@, params)]
        collided(p) == walls(timerCheckParticleCollision([ps EXCEPT ![i] = p], i))
        displaced(p) == collided([p EXCEPT !.x = @ + Displacement(p.Vx, dt),
                                           !.y = @ + Displacement(p.Vy, dt)])
    IN  displaced([ps[i] EXCEPT !.Vy = @ - GRAVITY * dt])

\* simulationStep(deltaTime)
timerSimulationStep(ps, dt, params) ==
    ForEach(LAMBDA ps1, i : timerParticleRound(ps1, i, dt, params), ps, 1, Len(ps))

(* The page of the timer-based engine, with index.js. *)

TimerFiles == {PairFile, ExampleFile, CutFile}

\* a file with what parsePcapFile makes of it
TimerUploads == {[file |-> f, pcapFile |-> parsePcapFile(f)] : f \in TimerFiles}

\* the time between two animation frames that the page is run with
TimerFrameDeltas == {2000}

\* fluidParticleEngine.restart() from a handler
TimerRestart(sources) ==
    \E after \in {timerRestart(sources, randomState, pendingAtRestart(timeouts))} :
        /\ Len(after.timeouts) <= MaxTimeouts
        /\ particles' = after.particles
        /\ randomState' = after.random
        /\ timeouts' = after.timeouts
        /\ spawnLog' = <<>>
        /\ cleared' = Len(particles)
        /\ stepsSinceRestart' = 0

\* fluidParticleEngine.simulationStep(dt) from a handler
TimerStep(dt) ==
    /\ particles' = timerSimulationStep(particles, dt, parameters)
    /\ stepsSinceRestart' = stepsSinceRestart + 1
    /\ cleared' = 0

\* new Engine(): initEngines runs fluidParticleEngine.init(), a restart with
\* no source
InitTimer ==
    /\ data = <<>>
    /\ decoded = Undefined
    /\ \E random \in 0..(RandomPeriod - 1) :
          \E after \in {timerRestart(<<>>, random, <<>>)} :
             /\ particles = after.particles
             /\ randomState = after.random
             /\ timeouts = after.timeouts
    /\ particleSources = <<>>
    /\ inputPcap = Null
    /\ parameters = TimerParameters
    /\ simulationTime = 0
    /\ simulationStopped = FALSE
    /\ lastTime = 0
    /\ deltaTime = 1
    /\ lastOp = "init"
    /\ thrown = Undefined
    /\ stepsSinceRestart = 0
    /\ spawnLog = <<>>
    /\ cleared = 0
    /\ removed = {}
    /\ quadtree = Null
    /\ inserted = {}
    /\ queryRange = Null
    /\ found = <<>>
    /\ stepRounds = <<>>
    /\ bits = Null

\* reader.onload of setPcapFile: parsePcapFile, then loadPcap, which ends in
\* restart; what one of them throws ends the handler there
TimerOnLoad(upload) ==
    /\ lastOp' = "loadPcap"
    /\ \E pcapFile \in {upload.pcapFile} :
          IF IsError(pcapFile)
          THEN /\ thrown' = pcapFile
               /\ cleared' = 0
               /\ UNCHANGED <<particles, particleSources, randomState, timeouts,
                              stepsSinceRestart, spawnLog>>
          ELSE \E loaded \in {timerLoadPcap(particleSources, pcapFile)} :
                  IF IsError(loaded.threw)
                  THEN /\ thrown' = loaded.threw
                       /\ cleared' = 0
                       /\ UNCHANGED <<particles, particleSources, randomState, timeouts,
                                      stepsSinceRestart, spawnLog>>
                  ELSE /\ thrown' = Undefined
                       /\ particleSources' = loaded.particleSources
                       /\ TimerRestart(loaded.particleSources)
    /\ UNCHANGED <<data, decoded, bits, stepRounds, inputPcap, parameters, simulationTime,
                   simulationStopped, lastTime, deltaTime, removed, quadtree,
                   treeVars>>

TimerSetPcapFile == \E upload \in TimerUploads : TimerOnLoad(upload)

\* Engine.simulation(currentTime), the animation-frame callback
TimerSimulation ==
    \E delta \in TimerFrameDeltas :
        /\ lastTime + delta <= MaxLastTime
        /\ simulationStopped \/ stepsSinceRestart < MaxSteps
        /\ deltaTime' = delta
        /\ lastTime' = lastTime + delta
        /\ thrown' = Undefined
        /\ IF simulationStopped
           THEN /\ lastOp' = "simulation"
                /\ cleared' = 0
                /\ UNCHANGED <<particles, stepsSinceRestart>>
           ELSE /\ lastOp' = "simulationStep"
                /\ TimerStep(delta)
        /\ UNCHANGED <<data, decoded, bits, stepRounds, particleSources, inputPcap, parameters,
                       simulationTime, simulationStopped, randomState, spawnLog,
                       removed, quadtree, treeVars, timeouts>>

\* the click handler of nextFrameBtn: engine.simulationStep(); engine.render()
TimerNextFrame ==
    /\ stepsSinceRestart < MaxSteps
    /\ lastOp' = "simulationStep"
    /\ thrown' = Undefined
    /\ TimerStep(deltaTime)
    /\ UNCHANGED <<data, decoded, bits, stepRounds, particleSources, inputPcap, parameters,
                   simulationTime, simulationStopped, lastTime, deltaTime, randomState,
                   spawnLog, removed, quadtree, treeVars, timeouts>>

\* the click handler of resetSimulationBtn: engine.restart(); engine.render()
TimerResetSimulation ==
    /\ lastOp' = "restart"
    /\ thrown' = Undefined
    /\ TimerRestart(particleSources)
    /\ UNCHANGED <<data, decoded, bits, stepRounds, particleSources, inputPcap, parameters,
                   simulationTime, simulationStopped, lastTime, deltaTime,
                   removed, quadtree, treeVars>>

\* a pending callback may run once no callback that is due before it waits:
\* none queued before it with a delay as short, and none of its own restart
\* call with a shorter delay
Due(i) ==
    /\ \A j \in 1..(i - 1) : timeouts[j].delay > timeouts[i].delay
    /\ \A j \in (i + 1)..Len(timeouts) :
          timeouts[j].call = timeouts[i].call => timeouts[j].delay >= timeouts[i].delay

\* the callback restart gave to setTimeout: () => {this.spawnParticle(source)}
Timeout(i) ==
    /\ Due(i)
    /\ lastOp' = "timeout"
    /\ thrown' = Undefined
    /\ cleared' = 0
    /\ \E after \in {timerSpawnParticle([particles |-> particles, random |-> randomState],
                                        timeouts[i].source)} :
          /\ particles' = after.particles
          /\ randomState' = after.random
    /\ timeouts' = clearTimeout(timeouts, i)
    \* history: the entry spawned, since the last restart
    /\ spawnLog' = Append(spawnLog, [entry |-> timeouts[i].entry,
                                     stale |-> timeouts[i].stale])
    /\ UNCHANGED <<data, decoded, bits, stepRounds, particleSources, inputPcap, parameters,
                   simulationTime, simulationStopped, lastTime, deltaTime,
                   stepsSinceRestart, removed, quadtree, treeVars>>

TimeoutFires == \E i \in 1..Len(timeouts) : Timeout(i)

NextTimer ==
    \/ TimerSetPcapFile
    \/ TimerSimulation
    \/ TimerNextFrame
    \/ TimerResetSimulation
    \/ ToggleSimulation
    \/ TimeoutFires

SpecTimer == InitTimer /\ [][NextTimer]_vars

-----------------------------------------------------------------------------
(* src/unnamed/part_001 770-1224: the smoothed-particle engine. Lengths are *)
(* in quarters of the smoothing radius h = 1, and densities in units of     *)
(* WPOLY_COEFF / 4096, in which wPoly6 is a whole number:                   *)
(* wPoly6(r2) = WPOLY_COEFF (h2 - r2)^3 = (WPOLY_COEFF / 4096) (16 - 16 r2)^3. *)

\* h, in length units
SPH_H == 4

SPH_H2 == SPH_H * SPH_H

\* the particles the loops of the engine run over (MAX_PARTICLES, 1000 in the
\* code)
SPH_MAX_PARTICLES == 2

SPH_PARTICLE_MASS == 1

GAS_CONSTANT == 120

\* 0.5, in density units: 0.5 * 4096 / WPOLY_COEFF, WPOLY_COEFF = 315 / (64 pi)
REST_DENSITY == 1307

wPoly6(r2) == (SPH_H2 - r2) * (SPH_H2 - r2) * (SPH_H2 - r2)

\* particle(), at the position the two Math.random() calls gave it. The
\* velocities and forces, which calculateDensity neither reads nor writes,
\* are left out.
sphParticle(x, y) ==
    [x |-> x, y |-> y, rho |-> SPH_PARTICLE_MASS * wPoly6(0), p |-> 0]

distSquared(p1, p2) ==
    (p2.x - p1.x) * (p2.x - p1.x) + (p2.y - p1.y) * (p2.y - p1.y)

\* addDensity(p1, p2) for p1 = particles[i], p2 = particles[j], which are
\* one object when i = j: the second += then adds to what the first left
addDensity(ps, i, j) ==
    LET add(r2) ==
            IF r2 < SPH_H2
            THEN [[ps EXCEPT ![i].rho = @ + SPH_PARTICLE_MASS * wPoly6(r2)]
                      EXCEPT ![j].rho = @ + SPH_PARTICLE_MASS * wPoly6(r2)]
            ELSE ps
    IN  add(distSquared(ps[i], ps[j]))

\* calculateDensity(): for every i, every j, and then the pressure of i
calculateDensity(ps) ==
    LET pressure(ps3, i) ==
            [ps3 EXCEPT ![i].p = Max(GAS_CONSTANT * (ps3[i].rho - REST_DENSITY), 0)]
    IN  ForEach(LAMBDA ps1, i :
                    pressure(ForEach(LAMBDA ps2, j : addDensity(ps2, i, j),
                                     ps1, 1, SPH_MAX_PARTICLES), i),
                ps, 1, SPH_MAX_PARTICLES)

\* where a particle may be: two places half the radius from a third, and one
\* farther than the radius from all of them
SphPositions ==
    {[x |-> 0, y |-> 0], [x |-> 2, y |-> 0], [x |-> 0, y |-> -2], [x |-> -4, y |-> 2]}

\* the engine after restart(): MAX_PARTICLES particles where Math.random put
\* them
InitSph ==
    /\ data = <<>>
    /\ decoded = Undefined
    /\ bits = Null
    /\ \E at \in [1..SPH_MAX_PARTICLES -> SphPositions] :
          particles = [i \in 1..SPH_MAX_PARTICLES |-> sphParticle(at[i].x, at[i].y)]
    /\ particleSources = <<>>
    /\ inputPcap = Null
    /\ parameters = InitialParameters
    /\ simulationTime = 0
    /\ simulationStopped = FALSE
    /\ lastTime = 0
    /\ deltaTime = 1
    /\ randomState = 0
    /\ lastOp = "init"
    /\ thrown = Undefined
    /\ stepsSinceRestart = 0
    /\ spawnLog = <<>>
    /\ cleared = 0
    /\ removed = {}
    /\ quadtree = Null
    /\ inserted = {}
    /\ queryRange = Null
    /\ found = <<>>
    /\ stepRounds = <<>>
    /\ timeouts = <<>>

\* simulationStep(deltaTime): calculateDensity, then calculateForces and the
\* integration loop. These two write Fx, Fy, Vx, Vy, x and y and never rho
\* or p; they work in floating point through a square root, and the
\* positions they leave are here any of SphPositions.
SphSimulationStep ==
    /\ stepsSinceRestart < MaxSteps
    /\ \E dense \in {calculateDensity(particles)} :
          \E at \in [1..SPH_MAX_PARTICLES -> SphPositions] :
             particles' = [i \in 1..SPH_MAX_PARTICLES |->
                              [dense[i] EXCEPT !.x = at[i].x, !.y = at[i].y]]
    /\ stepsSinceRestart' = stepsSinceRestart + 1
    /\ lastOp' = "sphSimulationStep"
    /\ UNCHANGED <<data, decoded, bits, stepRounds, particleSources, inputPcap,
                   parameters, simulationTime, simulationStopped, lastTime, deltaTime,
                   randomState, thrown, spawnLog, cleared, removed, quadtree,
                   treeVars, timeouts>>

NextSph == SphSimulationStep

SpecSph == InitSph /\ [][NextSph]_vars

-----------------------------------------------------------------------------
(* The decoder on its own: one buffer, one call of parsePcapFile.           *)

EngineIdle ==
    /\ particles = <<>>
    /\ particleSources = <<>>
    /\ inputPcap = Null
    /\ parameters = InitialParameters
    /\ simulationTime = 0
    /\ simulationStopped = FALSE
    /\ lastTime = 0
    /\ deltaTime = 1
    /\ randomState = 0
    /\ lastOp = "init"
    /\ thrown = Undefined
    /\ stepsSinceRestart = 0
    /\ spawnLog = <<>>
    /\ cleared = 0
    /\ removed = {}
    /\ quadtree = Null
    /\ inserted = {}
    /\ queryRange = Null
    /\ found = <<>>
    /\ stepRounds = <<>>
    /\ timeouts = <<>>

DecodeInit ==
    /\ data \in DecoderInputs
    /\ decoded = Undefined
    /\ bits = Null
    /\ EngineIdle

Decode ==
    /\ decoded = Undefined
    /\ decoded' = parsePcapFile(data)
    /\ UNCHANGED <<data, engineVars>>

DecodeNext == Decode

SpecDecode == DecodeInit /\ [][DecodeNext]_vars

-----------------------------------------------------------------------------
(* src/scripts/utils.js on its own: one byte cut in two with getFirstNBits  *)
(* and getLastNBits, as parseIPv4Payload and parseProtocolDatagram cut      *)
(* data[14], data[15] and data[12].                                        *)

ByteValues == 0..255

BitCounts == 1..8

InitBits ==
    /\ data = <<>>
    /\ decoded = Undefined
    /\ bits \in [value : ByteValues, n : BitCounts]
    /\ EngineIdle

\* first = getFirstNBits(value, n); last = getLastNBits(value, 8 - n)
TakeBits ==
    /\ DOMAIN bits = {"value", "n"}
    /\ bits' = [value |-> bits.value,
                n |-> bits.n,
                first |-> getFirstNBits(bits.value, bits.n, 8),
                last |-> getLastNBits(bits.value, 8 - bits.n)]
    /\ lastOp' = "getFirstNBits"
    /\ UNCHANGED <<data, decoded, particles, particleSources, inputPcap, parameters,
                   simulationTime, simulationStopped, lastTime, deltaTime, randomState,
                   thrown, stepsSinceRestart, spawnLog, cleared, removed, quadtree,
                   treeVars, timeouts, stepRounds>>

NextBits == TakeBits

SpecBits == InitBits /\ [][NextBits]_vars

-----------------------------------------------------------------------------
(* parseIPv4Payload on its own: one Ethernet frame of an IPv4 packet whose  *)
(* flags/fragment-offset word, bytes 20 and 21 of the frame, varies.        *)

\* the three flag bits in every combination
FlagBits == {0, 8192, 16384, 24576, 32768, 40960, 49152, 57344}

\* fragment offsets, the least and the greatest of 13 bits among them
FragmentOffsets == {0, 1, 185, 255, 256, 4095, 4096, 8191}

FlagWords == {f + o : f \in FlagBits, o \in FragmentOffsets}

\* the frame of kind "tcp" with the word in its place, high byte first
FlaggedFrame(word) ==
    [FrameBytes("tcp") EXCEPT ![21] = word \div 256, ![22] = word % 256]

InitFlags ==
    /\ data \in {FlaggedFrame(word) : word \in FlagWords}
    /\ decoded = Undefined
    /\ bits = Null
    /\ EngineIdle

ParseIPv4 ==
    /\ decoded = Undefined
    /\ decoded' = parseIPv4Payload(data)
    /\ UNCHANGED <<data, engineVars>>

NextFlags == ParseIPv4

SpecFlags == InitFlags /\ [][NextFlags]_vars

-----------------------------------------------------------------------------
(* Claims about the decoder, under SpecDecode.                              *)

\* the error outcomes the decoder's contract names
TruncatedRecord == [type |-> "TruncatedRecord"]

MalformedCapture == [type |-> "MalformedCapture"]

DataIsLittleEndian == SubSeq(data, 1, 4) = LittleEndianMagic

\* following the records from cursor, some complete 16-byte record header
\* declares more captured bytes than remain after it
RECURSIVE DeclaresTooMuch(_, _, _)
DeclaresTooMuch(buf, le, cursor) ==
    IF cursor + 16 > Len(buf) THEN FALSE
    ELSE LET inclLen == getUint32(buf, cursor + 8, le)
         IN  IF inclLen > Len(buf) - (cursor + 16) THEN TRUE
             ELSE DeclaresTooMuch(buf, le, cursor + 16 + inclLen)

\* the offsets 24, 24 + 16 + L1, ... of the records when they fill the buffer
\* exactly, and <<-1>> when they do not
RECURSIVE RecordOffsets(_, _, _)
RecordOffsets(buf, le, cursor) ==
    IF cursor = Len(buf) THEN <<>>
    ELSE IF cursor + 16 > Len(buf) THEN <<-1>>
    ELSE LET inclLen == getUint32(buf, cursor + 8, le)
         IN  IF cursor + 16 + inclLen > Len(buf) THEN <<-1>>
             ELSE LET rest == RecordOffsets(buf, le, cursor + 16 + inclLen)
                  IN  IF rest = <<-1>> THEN rest ELSE <<cursor>> \o rest

ExactlyFilled ==
    /\ Len(data) >= 24
    /\ RecordOffsets(data, DataIsLittleEndian, 24) # <<-1>>

\* C1: when a record header declares a capturedLength larger than the bytes
\* remaining after it, decoding ends in TruncatedRecord (and so returns no
\* record list, partial or shortened).
C1_TruncationRaisesTruncatedRecord ==
    (/\ decoded # Undefined
     /\ Len(data) >= 24
     /\ DeclaresTooMuch(data, DataIsLittleEndian, 24))
    => decoded = TruncatedRecord

\* C2: every buffer shorter than 24 bytes ends in MalformedCapture, a
\* dedicated error that is neither TruncatedRecord nor a generic RangeError.
C2_ShortBufferRaisesMalformedCapture ==
    (decoded # Undefined /\ Len(data) < 24) => decoded = MalformedCapture

\* C3: a 24-byte header followed by n records that exactly fill the buffer
\* decodes to exactly n records in file order, record i carrying the four
\* header fields found at offset 24 + sum_{j<i} (16 + Lj) and a payload of
\* exactly Li bytes.
C3_RecordLoopYieldsEveryRecord ==
    (decoded # Undefined /\ ExactlyFilled) =>
        LET le == DataIsLittleEndian
            offs == RecordOffsets(data, le, 24)
        IN  /\ decoded.type = "pcap"
            /\ Len(decoded.packets) = Len(offs)
            /\ \A i \in 1..Len(offs) :
                 LET r == decoded.packets[i]
                 IN  /\ r.offset = offs[i]
                     /\ r.header.tsSec = getUint32(data, offs[i], le)
                     /\ r.header.tsUsec = getUint32(data, offs[i] + 4, le)
                     /\ r.header.inclLen = getUint32(data, offs[i] + 8, le)
                     /\ r.header.origLen = getUint32(data, offs[i] + 12, le)
                     /\ Len(r.packetData) = r.header.inclLen
                     /\ r.packetData =
                            SubSeq(data, offs[i] + 17, offs[i] + 16 + r.header.inclLen)

-----------------------------------------------------------------------------
(* Claims about the page, under Spec and SpecCrowd.                         *)

\* the handler that ran last was reader.onload and it ran to its end:
\* inputPcap is the capture the source's spawn queue was built from
Installed == lastOp = "setPcapFile" /\ thrown = Undefined

\* the record's frame was classified and carries a classified network payload
HasFramePayload(rec) == rec.packet # Undefined /\ rec.packet.payload # Undefined

\* the record carries a transport segment
HasTransportPayload(rec) ==
    HasFramePayload(rec) /\ rec.packet.payload.datagram # Undefined

FramePayloadRecords ==
    {i \in 1..Len(inputPcap.packets) : HasFramePayload(inputPcap.packets[i])}

TransportPayloadRecords ==
    {i \in 1..Len(inputPcap.packets) : HasTransportPayload(inputPcap.packets[i])}

FirstOf(S) == CHOOSE i \in S : \A j \in S : i <= j

\* a record's timestamp in microseconds
recordMicroseconds(rec) == rec.header.tsSec * 1000000 + rec.header.tsUsec

\* how often spawnParticle was called for item k of source s since the restart
Fired(s, k) == Cardinality({n \in 1..Len(spawnLog) : spawnLog[n] = <<s, k>>})

\* C4: for every capture parsePcapFile returns, loadPcap lets no exception
\* escape, and the spawn queue it installs has an entry for each record with a
\* classified payload and for no other record
C4_LoadPcapNeverRaises ==
    (lastOp = "setPcapFile" /\ thrown # RangeError) =>
        /\ thrown = Undefined
        /\ Len(particleSources) = 1
        /\ Len(particleSources[1].spawnQueue) = Cardinality(FramePayloadRecords)

C6_SpawnTimesAreMillisecondOffsets ==
    Installed =>
        LET recs == inputPcap.packets
            q == particleSources[1].spawnQueue
        IN  \A i \in FramePayloadRecords :
                \E k \in 1..Len(q) :
                    /\ q[k].payload = recs[i].packet.payload
                    /\ 1000 * q[k].time =
                          recordMicroseconds(recs[i])
                          - recordMicroseconds(recs[FirstOf(FramePayloadRecords)])

\* C7: since the last restart spawnParticle has been called once for every
\* item whose time the clock of some step has reached and never for any other
\* item, the item's flag says so, and every call made one particle
C7_EachEntrySpawnsOnce ==
    /\ Len(particles) = Len(spawnLog)
    /\ \A s \in 1..Len(particleSources) :
         \A k \in 1..Len(particleSources[s].spawnQueue) :
            LET item == particleSources[s].spawnQueue[k]
                due == stepsSinceRestart > 0 /\ item.time * TicksPerMs <= simulationTime
            IN  /\ Fired(s, k) = IF due THEN 1 ELSE 0
                /\ item.spawned = due

\* two steps after a restart one item has spawned and another is not yet due
C7_Witness ==
    /\ stepsSinceRestart >= 2
    /\ Len(particleSources) = 1
    /\ \E k \in 1..Len(particleSources[1].spawnQueue) : Fired(1, k) = 1
    /\ \E k \in 1..Len(particleSources[1].spawnQueue) :
          /\ particleSources[1].spawnQueue[k].time * TicksPerMs > simulationTime
          /\ Fired(1, k) = 0

\* a queue without its spawned flags
Unflagged(sources) ==
    [s \in 1..Len(sources) |->
        [k \in 1..Len(sources[s].spawnQueue) |->
            [time |-> sources[s].spawnQueue[k].time,
             payload |-> sources[s].spawnQueue[k].payload]]]

SortedByTime(sources) ==
    \A s \in 1..Len(sources) :
        \A k \in 1..(Len(sources[s].spawnQueue) - 1) :
            sources[s].spawnQueue[k].time <= sources[s].spawnQueue[k + 1].time

\* C8: the handler that constructs a source leaves its spawn queue sorted
\* ascending by time, and every other handler (simulationStep and restart among
\* them) leaves the queues' lengths, order, times and payloads as they were
C8_SpawnQueueFrame ==
    [][IF lastOp' = "setPcapFile"
       THEN SortedByTime(particleSources')
       ELSE Unflagged(particleSources') = Unflagged(particleSources)]_vars

\* a capture whose records were out of order has been installed, stepped and
\* restarted
C8_Witness ==
    /\ lastOp = "restart"
    /\ cleared > 0
    /\ Len(particleSources) = 1
    /\ Len(particleSources[1].spawnQueue) = 2
    /\ particleSources[1].spawnQueue[1].time < 0

\* C9: after restart there is no particle, the clock is 0, no item of any
\* source is flagged spawned, and a second restart would change nothing
C9_RestartResetsAndIsIdempotent ==
    lastOp = "restart" =>
        /\ particles = <<>>
        /\ simulationTime = 0
        /\ \A s \in 1..Len(particleSources) :
             \A k \in 1..Len(particleSources[s].spawnQueue) :
                ~particleSources[s].spawnQueue[k].spawned
        /\ restartSources(particleSources) = particleSources

\* restart has just cleared two particles
C9_Witness == lastOp = "restart" /\ cleared >= 2

\* C10: there are never more particles than parameters.maxParticles
C10_ParticleCountBounded == Len(particles) <= parameters.maxParticles

\* C11: whenever a handler has returned, every live particle lies within the
\* world rectangle
C11_ParticlesWithinWorld ==
    \A i \in 1..Len(particles) :
        /\ cameraLeft <= particles[i].x /\ particles[i].x <= cameraRight
        /\ cameraBottom <= particles[i].y /\ particles[i].y <= cameraTop

\* the live particle of the given id
Live(ps, id) == ps[CHOOSE i \in 1..Len(ps) : ps[i].id = id]

IsLive(ps, id) == \E i \in 1..Len(ps) : ps[i].id = id

\* C12: between restarts a particle's startProcessingTime changes at most
\* once, from Infinity to the clock of the step that changes it, a particle is
\* removed only with a finite startProcessingTime, a removed particle is not
\* live again, and no live particle of infinite startProcessingTime is at the
\* server's intake
C12_LifecycleIrreversible ==
    [][lastOp' \in {"simulationStep", "simulation", "toggleSimulation"} =>
        /\ \A i \in 1..Len(particles) :
              LET p == particles[i]
              IN  /\ IsLive(particles', p.id) \/ \E r \in removed' : r.id = p.id
                  /\ \A q \in {Live(particles', id) : id \in {p.id} \cap
                                    {particles'[j].id : j \in 1..Len(particles')}}
                             \cup {r \in removed' : r.id = p.id} :
                        IF p.startProcessingTime # Infinity
                        THEN q.startProcessingTime = p.startProcessingTime
                        ELSE q.startProcessingTime \in {Infinity, simulationTime'}
        /\ \A r \in removed' :
              /\ r.startProcessingTime # Infinity
              /\ ~IsLive(particles', r.id)
        /\ removed \subseteq removed'
        \* the change comes in the step that first takes the particle in
        /\ \A j \in 1..Len(particles') :
              particles'[j].startProcessingTime = Infinity =>
                  particles'[j].y > cameraBottom + PILLARS_HEIGHT]_vars

\* a particle has been removed while another, taken in by the server, is live
C12_Witness ==
    /\ removed # {}
    /\ \E i \in 1..Len(particles) : particles[i].startProcessingTime # Infinity

\* C13: when simulationStep has returned, no live particle has been with the
\* server for serverSpeed milliseconds or longer
C13_NoOverdueParticle ==
    lastOp = "simulationStep" =>
        \A i \in 1..Len(particles) :
            ~(/\ parameters.serverSpeed # Infinity
              /\ particles[i].startProcessingTime # Infinity
              /\ simulationTime - particles[i].startProcessingTime
                    >= parameters.serverSpeed * TicksPerMs)

-----------------------------------------------------------------------------
(* Claims about the Quadtree, under SpecTree.                               *)

\* the nodes of a tree
RECURSIVE NodesOf(_)
NodesOf(node) ==
    IF node.divided
    THEN {node} \cup NodesOf(node.northeast) \cup NodesOf(node.northwest)
                \cup NodesOf(node.southeast) \cup NodesOf(node.southwest)
    ELSE {node}

\* C14: no node of the tree holds more than `capacity` particles in its own
\* list
C14_NodeHoldsAtMostCapacity ==
    \A node \in NodesOf(quadtree) : Len(node.particles) <= node.capacity

\* C15: a query returns the indexed particles whose position lies in the
\* range, each once, as a scan of the indexed particles does
C15_QueryIsBruteForceScan ==
    lastOp = "query" =>
        /\ {found[k] : k \in 1..Len(found)}
              = {id \in inserted : particleInRange(particles[id], queryRange)}
        /\ \A k, l \in 1..Len(found) : found[k] = found[l] => k = l

\* a query over part of the world has found some of the particles of a tree
\* that has subdivided, and has passed over a child that holds a particle
C15_Witness ==
    /\ lastOp = "query"
    /\ quadtree.divided
    /\ queryRange # FullWorldRect
    /\ found # <<>>
    /\ \E node \in NodesOf(quadtree) \ {quadtree} :
          node.particles # <<>> /\ ~intersect(node, queryRange)

\* C16: a query of the whole world rectangle returns every particle placed
\* in the world, its edges included
C16_FullWorldQueryReturnsAll ==
    (lastOp = "query" /\ queryRange = FullWorldRect) =>
        {found[k] : k \in 1..Len(found)} = 1..Len(particles)

\* the particles a tree holds, in all its nodes
StoredIn(tree) ==
    {node.particles[k] : <<node, k>> \in
        {nk \in NodesOf(tree) \X (1..5) : nk[2] <= Len(nk[1].particles)}}

\* under SpecTree: insert returns true for the particles inside the root's
\* boundary and for no other, and the tree holds the particles it returned
\* true for and no other
InsertRefusesOutside ==
    /\ inserted = {i \in 1..Len(particles) :
                      contains(buildQuadTree(<<>>, <<>>), particles[i])}
    /\ StoredIn(quadtree) = inserted

\* C17: when simulationStep has returned, every live particle that a node of
\* the tree built in the step holds lies, where it is now, inside that node's
\* boundary
C17_StoredParticlesInsideBoundary ==
    (lastOp = "simulationStep" /\ quadtree # Null) =>
        \A node \in NodesOf(quadtree) :
            \A k \in 1..Len(node.particles) :
                IsLive(particles, node.particles[k]) =>
                    contains(node, Live(particles, node.particles[k]))

-----------------------------------------------------------------------------
(* Claims about checkParticleCollision, under SpecCollide.                  *)

\* C18: checkParticleCollision leaves the sum of the two particles'
\* velocities as it was, on both axes
C18_ImpulseConservesMomentum ==
    [][lastOp' = "checkParticleCollision" =>
        /\ particles'[1].Vx + particles'[2].Vx = particles[1].Vx + particles[2].Vx
        /\ particles'[1].Vy + particles'[2].Vy = particles[1].Vy + particles[2].Vy]_vars

\* an impulse has been applied off the level: the particles, which started
\* with velocities along x, move along y in opposite senses
C18_Witness ==
    /\ lastOp = "checkParticleCollision"
    /\ particles[1].Vy # 0
    /\ particles[2].Vy = -particles[1].Vy

\* the two particles are closer than the sum of their radii and approach
\* each other along the line of centres, both moving
Closing(a, b) ==
    LET r == radius(a) + radius(b)
        dx == a.x - b.x
        dy == a.y - b.y
    IN  /\ dx * dx + dy * dy < r * r
        /\ (a.Vx - b.Vx) * dx + (a.Vy - b.Vy) * dy < 0
        /\ isInMovement(a) /\ isInMovement(b)

\* C25: for a pair of distinct particles whose centres are closer than the
\* sum of their radii and that approach each other, checkParticleCollision
\* changes the velocity of both by the impulse, whether they overlap by less
\* or by more than the collision tolerance.
C25_ImpulseOnEveryClosingPair ==
    [][(lastOp' = "checkParticleCollision" /\ Closing(particles[1], particles[2])) =>
        /\ <<particles'[1].Vx, particles'[1].Vy>> # <<particles[1].Vx, particles[1].Vy>>
        /\ <<particles'[2].Vx, particles'[2].Vy>> # <<particles[2].Vx, particles[2].Vy>>]_vars

\* the part of C25 that the code does: a closing pair within the tolerance
\* of touching has the velocity of both changed
ImpulseWithinTolerance ==
    [][(/\ lastOp' = "checkParticleCollision"
        /\ Closing(particles[1], particles[2])
        /\ checkCollision(particles[1], particles[2]) # INTERPENETRATING) =>
        /\ <<particles'[1].Vx, particles'[1].Vy>> # <<particles[1].Vx, particles[1].Vy>>
        /\ <<particles'[2].Vx, particles'[2].Vy>> # <<particles[2].Vx, particles[2].Vy>>]_vars

-----------------------------------------------------------------------------
(* Claims about the page's randomness, under Spec.                          *)

\* what a step leaves of the simulator: everything but the generator, which
\* is no part of it
StepOutcome(after) ==
    [particles |-> after.particles,
     particleSources |-> after.particleSources,
     simulationTime |-> after.simulationTime]

\* C19: two copies of the simulator in the state reached, stepped one after
\* the other with the same deltaTime, reach the same state; the generator is
\* the ambient one, which the first copy's step has advanced when the second
\* copy steps
C19_StepIsDeterministic ==
    \A dt \in FrameDeltas :
        \A first \in {simulationStep(particles, particleSources, simulationTime,
                                      randomState, spawnLog, dt, parameters)} :
            \A second \in {simulationStep(particles, particleSources, simulationTime,
                                           first.random, spawnLog, dt, parameters)} :
                StepOutcome(first) = StepOutcome(second)

\* C20: in the timer-based engine the live particle set changes only inside
\* simulationStep, restart or loadPcap: a step of any other handler or
\* callback leaves as many particles as it found (outside restart the array
\* is only ever appended to), and in particular so does every step taken
\* while the simulation is paused and no step is invoked.
C20_SingleWriter ==
    [][/\ lastOp' \notin {"simulationStep", "restart", "loadPcap"}
            => Len(particles') = Len(particles)
       /\ simulationStopped /\ simulationStopped'
            /\ lastOp' \notin {"simulationStep", "restart", "loadPcap"}
            => Len(particles') = Len(particles)]_vars

-----------------------------------------------------------------------------
(* Claims about the decoder's fields, under SpecDecode.                     *)

\* the n bytes from offset start as one number, lowest byte first or last
RECURSIVE FieldAt(_, _, _, _)
FieldAt(buf, start, n, lowFirst) ==
    IF n = 0 THEN 0
    ELSE IF lowFirst
    THEN buf[start + 1] + 256 * FieldAt(buf, start + 1, n - 1, lowFirst)
    ELSE Pow2(8 * (n - 1)) * buf[start + 1] + FieldAt(buf, start + 1, n - 1, lowFirst)

\* C21: when the first four bytes are D4 C3 B2 A1 every multi-byte field of
\* the global header and of every record header is read little-endian, and
\* with any other first four bytes every such field is read big-endian: one
\* choice, the same for the header and for all records.
C21_ByteOrderFollowsMagic ==
    decoded.type = "pcap" =>
        LET le == SubSeq(data, 1, 4) = <<212, 195, 178, 161>>
            g == decoded.globalHeader
        IN  /\ g.versionMajor = FieldAt(data, 4, 2, le)
            /\ g.versionMinor = FieldAt(data, 6, 2, le)
            /\ g.thisZone = FieldAt(data, 8, 4, le)
            /\ g.sigfigs = FieldAt(data, 12, 4, le)
            /\ g.snapLen = FieldAt(data, 16, 4, le)
            /\ g.network = FieldAt(data, 20, 4, le)
            /\ \A i \in 1..Len(decoded.packets) :
                 LET r == decoded.packets[i]
                 IN  /\ r.header.tsSec = FieldAt(data, r.offset, 4, le)
                     /\ r.header.tsUsec = FieldAt(data, r.offset + 4, 4, le)
                     /\ r.header.inclLen = FieldAt(data, r.offset + 8, 4, le)
                     /\ r.header.origLen = FieldAt(data, r.offset + 12, 4, le)

\* a little-endian capture decoded to two records
C21_Witness ==
    /\ decoded.type = "pcap"
    /\ SubSeq(data, 1, 4) = <<212, 195, 178, 161>>
    /\ Len(decoded.packets) = 2

\* a capture under another first word decoded to two records
C21_OtherMagicDecoded ==
    /\ decoded.type = "pcap"
    /\ SubSeq(data, 1, 4) = OtherMagic
    /\ Len(decoded.packets) = 2

\* the frame of the record at offset off of the buffer
FrameAt(buf, off, le) == SubSeq(buf, off + 17, off + 16 + FieldAt(buf, off + 8, 4, le))

\* bytes 12..13 of a frame, highest byte first
EtherTypeOf(frame) == 256 * frame[13] + frame[14]

\* C22: the EtherType is read big-endian from bytes 12..13 of the frame
\* whatever the file's byte order; 0x0800 gives the frame an IPv4 payload and
\* every other EtherType gives it no payload without raising, and the
\* records behind such a frame are decoded and are in the result: when
\* decoding an Ethernet capture whose records fill it exactly raises, one of
\* its frames is IPv4 or has no EtherType at all.
C22_EtherTypeDispatch ==
    (/\ decoded # Undefined
     /\ ExactlyFilled
     /\ FieldAt(data, 20, 4, DataIsLittleEndian) = ETHERNET) =>
        LET le == DataIsLittleEndian
            offs == RecordOffsets(data, le, 24)
        IN  IF decoded.type = "pcap"
            THEN /\ Len(decoded.packets) = Len(offs)
                 /\ \A i \in 1..Len(offs) :
                      LET frame == FrameAt(data, offs[i], le)
                          packet == decoded.packets[i].packet
                      IN  /\ packet.type = "Ethernet Frame"
                          /\ packet.etherType = EtherTypeOf(frame)
                          /\ IF EtherTypeOf(frame) = 2048
                             THEN packet.payload.type = "IP PDU"
                             ELSE packet.payload = Undefined
            ELSE \E i \in 1..Len(offs) :
                    LET frame == FrameAt(data, offs[i], le)
                    IN  Len(frame) < 14 \/ EtherTypeOf(frame) = 2048

\* a little-endian capture decoded to a frame of another EtherType, without
\* a payload, and an IPv4 frame behind it
C22_Witness ==
    /\ decoded.type = "pcap"
    /\ DataIsLittleEndian
    /\ Len(decoded.packets) = 2
    /\ decoded.packets[1].packet # Undefined
    /\ decoded.packets[1].packet.etherType = 2054
    /\ decoded.packets[1].packet.payload = Undefined
    /\ decoded.packets[2].packet.payload # Undefined

-----------------------------------------------------------------------------
(* Claims about utils.js, under SpecBits.                                   *)

\* a | b on non-negative operands
BitOr(a, b) == a + b - BitAnd(a, b)

\* C23: for every byte value v in 0..255 and every N in 1..8,
\* getFirstNBits(v, N) shifted left by 8 - N and combined with
\* getLastNBits(v, 8 - N) is v again.
C23_BitFieldRoundTrip ==
    "first" \in DOMAIN bits =>
        BitOr(bits.first * Pow2(8 - bits.n), bits.last) = bits.value

\* a byte with bits on both sides of the cut, cut after its third bit
C23_Witness ==
    /\ "first" \in DOMAIN bits
    /\ bits.value = 181
    /\ bits.n = 3
    /\ bits.first = 5
    /\ bits.last = 21

-----------------------------------------------------------------------------
(* Claims about the walls, under SpecWall.                                  *)

\* the limits of checkWallCollisions
RightLimit == cameraRight - (parameters.particleRadius \div 2)

LeftLimit == cameraLeft + (parameters.particleRadius \div 2)

TopLimit == cameraTop - (parameters.particleRadius \div 2)

BottomLimit == cameraBottom + (parameters.particleRadius \div 2)

\* a speed v turned into w: reflected, and smaller
Reflected(v, w) == IF v > 0 THEN w < 0 /\ -w < v ELSE w > 0 /\ w < -v

\* C24: when a particle moving with Vx > 0 reaches or passes the right wall
\* limit during a step (it is there when the walls are tested, or it is
\* there when the step is over), then after the step its x is at most
\* camera.right and its Vx is negative and smaller in magnitude than
\* before; likewise for the left, top and bottom walls.
C24_WallReflectsAndDamps ==
    [][lastOp' = "simulationStep" =>
        \A i \in 1..Len(particles) :
            IsLive(particles', particles[i].id) =>
                LET p == particles[i]
                    q == Live(particles', p.id)
                IN  /\ (p.Vx > 0 /\ (p.x >= RightLimit \/ q.x >= RightLimit))
                        => (q.x <= cameraRight /\ Reflected(p.Vx, q.Vx))
                    /\ (p.Vx < 0 /\ (p.x <= LeftLimit \/ q.x <= LeftLimit))
                        => (q.x >= cameraLeft /\ Reflected(p.Vx, q.Vx))
                    /\ (p.Vy > 0 /\ (p.y >= TopLimit \/ q.y >= TopLimit))
                        => (q.y <= cameraTop /\ Reflected(p.Vy, q.Vy))
                    /\ (p.Vy < 0 /\ (p.y <= BottomLimit \/ q.y <= BottomLimit))
                        => (q.y >= cameraBottom /\ Reflected(p.Vy, q.Vy))]_vars

-----------------------------------------------------------------------------
(* Claims about the smoothed-particle engine, under SpecSph.                *)

\* the kernel contributions to particle i of the other particles j < n
\* within the smoothing radius
RECURSIVE NeighbourDensity(_, _, _)
NeighbourDensity(ps, i, n) ==
    IF n = 0 THEN 0
    ELSE NeighbourDensity(ps, i, n - 1)
         + (IF n # i /\ distSquared(ps[i], ps[n]) < SPH_H2
            THEN SPH_PARTICLE_MASS * wPoly6(distSquared(ps[i], ps[n]))
            ELSE 0)

\* C26: after calculateDensity in any tick, the density of each particle is
\* the self-density term plus one kernel contribution for each other
\* particle within h of it at that tick (the step's calculateDensity works
\* on the positions the step found), nothing carried over from earlier
\* ticks and nothing counted twice.
C26_DensityIsSelfPlusNeighbours ==
    [][lastOp' = "sphSimulationStep" =>
        \A i \in 1..Len(particles) :
            particles'[i].rho =
                SPH_PARTICLE_MASS * wPoly6(0) + NeighbourDensity(particles, i, Len(particles))]_vars

-----------------------------------------------------------------------------
(* Claims about the per-particle pass, under SpecServer.                    *)

\* the rounds the last simulationStep ran for the particle of the given id
RoundsFor(id) == Cardinality({k \in 1..Len(stepRounds) : stepRounds[k] = id})

\* C27: in every simulationStep, each particle that is live when the
\* per-particle pass starts and is not removed in that tick (so: each
\* particle live when the step returns) has had exactly one round of the
\* pass, gravity and displacement once, also when other particles were
\* removed during the pass.
C27_EveryLiveParticleHasOneRound ==
    lastOp = "simulationStep" =>
        \A i \in 1..Len(particles) : RoundsFor(particles[i].id) = 1

-----------------------------------------------------------------------------
(* Claims about the running page, under SpecLive.                           *)

\* the ids a capture of the page gives its particles
LiveIds == 1..(MaxSimRecords + 1)

\* the server has taken the particle in and it is live
Intaken(id) ==
    /\ IsLive(particles, id)
    /\ Live(particles, id).startProcessingTime # Infinity

\* no further step is taken before the next restart
Horizon == stepsSinceRestart >= MaxSteps

\* frames looked ahead of the last step
MaxWait == 3

\* the test of line 595 is true for the particle at the clock of one of the
\* next frames
Removable(id) ==
    \E n \in 1..MaxWait :
        shouldBeRemoved(simulationTime + n * deltaTime,
                        Live(particles, id), parameters)

FiniteLatencyRemoves ==
    \A id \in LiveIds :
        (Intaken(id) /\ parameters.serverSpeed # Infinity)
            ~> (\/ ~IsLive(particles, id)
                \/ Horizon /\ Removable(id))

\* with serverSpeed as written no step removes a particle
NoRemovalAtInfiniteLatency ==
    parameters.serverSpeed = Infinity => removed = {}

-----------------------------------------------------------------------------
(* Claims about restart in the timer-based engine, under SpecTimer.         *)

\* C29: of the particles spawned since the most recent restart (spawnLog), no
\* two come from the same entry of the schedule, and none comes from a
\* callback that an earlier call of restart, loadPcap's included, had queued
C29_RestartDiscardsEarlierSchedule ==
    /\ \A i, j \in 1..Len(spawnLog) :
          i # j /\ spawnLog[i].entry # <<0, 0>>
              => spawnLog[i].entry # spawnLog[j].entry
    /\ \A i \in 1..Len(spawnLog) : ~spawnLog[i].stale

\* the first half alone
EntrySpawnsOncePerRestart ==
    \A i, j \in 1..Len(spawnLog) :
        i # j /\ spawnLog[i].entry # <<0, 0>>
            => spawnLog[i].entry # spawnLog[j].entry

-----------------------------------------------------------------------------
(* Claims about the IPv4 flags, under SpecFlags.                            *)

\* the flags/fragment-offset word of the frame
FlagsWordOf(frame) == 256 * frame[21] + frame[22]

\* bit idx of a word, bit 0 the lowest
BitOf(word, idx) == (word \div Pow2(idx)) % 2 = 1

\* C30: in the packet parseIPv4Payload makes of a frame, dontFragment is bit
\* 14 of the flags/fragment-offset word and moreFragments bit 13, whatever
\* bit 15 is, and fragmentOffset is the word's low 13 bits
C30_FlagsAreBits14And13 ==
    decoded # Undefined =>
        /\ ~IsError(decoded)
        /\ decoded.header.flags.dontFragment = BitOf(FlagsWordOf(data), 14)
        /\ decoded.header.flags.moreFragments = BitOf(FlagsWordOf(data), 13)
        /\ decoded.header.fragmentOffset = FlagsWordOf(data) % Pow2(13)

\* the same of the words whose bit 15 is clear, and the offset of every word
FlagsWithReservedBitClear ==
    decoded # Undefined =>
        /\ ~IsError(decoded)
        /\ ~BitOf(FlagsWordOf(data), 15) =>
              /\ decoded.header.flags.dontFragment = BitOf(FlagsWordOf(data), 14)
              /\ decoded.header.flags.moreFragments = BitOf(FlagsWordOf(data), 13)
        /\ decoded.header.fragmentOffset = FlagsWordOf(data) % Pow2(13)

====
